---- MODULE Spec2Model ----
(***************************************************************************)
(* pc_builder: the compatibility engine (PCBuilderService.check_compati-   *)
(* bility), whole-list validation (validate_build) and the build           *)
(* assembler (create_build / update_build / PCBuild.save / share /         *)
(* unshare) of backend/pc_builder.                                         *)
(*                                                                         *)
(* Components are read the way services.py reads them: `category` is the   *)
(* category name compared with string literals, `specifications` is a      *)
(* mapping read with dict.get, so an absent key yields None or the         *)
(* default given at the call.  Association rows carry the fields that      *)
(* services.py writes (quantity, price_at_time).                           *)
(***************************************************************************)
EXTENDS Integers, Sequences, FiniteSets, TLC

(***************************************************************************)
(* Bounds of the model.                                                    *)
(***************************************************************************)
MaxSelected == 3

(***************************************************************************)
(* Python values.                                                          *)
(***************************************************************************)
\* None, as returned by dict.get(key) for an absent key of a string field.
None == "None"

\* An empty specifications mapping ({}).
EmptySpec == [k \in {} |-> 0]

\* specifications = None: a component that has no specifications mapping.
NoSpecifications == [k \in {"None"} |-> None]

\* A value that is not a number (a string) where the code compares numbers.
NotANumber == -1

\* A value that is not a sequence (a number) where the code tests membership.
NotASequence == {"NotASequence"}

\* dict.get(key, default)
Get(specifications, key, default) ==
    IF key \in DOMAIN specifications THEN specifications[key] ELSE default

(***************************************************************************)
(* services.py: class constants.                                           *)
(***************************************************************************)
REQUIRED_COMPONENTS == {"CPU", "Motherboard", "RAM", "PSU", "Case"}

COMPONENT_CATEGORIES ==
    {"CPU", "Motherboard", "RAM", "GPU", "Storage", "PSU", "Case", "Cooling"}

(***************************************************************************)
(* check_compatibility: the lookup category -> first selected component    *)
(* of that category (services.py 69-72).                                   *)
(***************************************************************************)
HasCategory(selected_components, category) ==
    \E i \in 1..Len(selected_components) :
        selected_components[i].category = category

\* next((c for c in selected_components if c.category == category), None),
\* used only where HasCategory holds (the code tests the entry's truthiness).
components_by_category_last(selected_components, category) ==
    selected_components[
        CHOOSE i \in 1..Len(selected_components) :
            /\ selected_components[i].category = category
            /\ \A j \in (i+1)..Len(selected_components) :
                   selected_components[j].category # category]

components_by_category(selected_components, category) ==
    selected_components[
        CHOOSE i \in 1..Len(selected_components) :
            /\ selected_components[i].category = category
            /\ \A j \in 1..(i-1) : selected_components[j].category # category]

\* sum(1 for c in selected_components if c.category == category)
CountCategory(selected_components, category) ==
    Cardinality({i \in 1..Len(selected_components) :
                    selected_components[i].category = category})

\* the count of CountStorage taken over every Storage entry
CountStorageAnyType(selected_components, type) ==
    Cardinality({i \in 1..Len(selected_components) :
                    selected_components[i].category = "Storage"})

\* sum(1 for c in selected_components
\*     if c.category == 'Storage' and c.specifications.get('type') == type)
CountStorage(selected_components, type) ==
    Cardinality({i \in 1..Len(selected_components) :
                    /\ selected_components[i].category = "Storage"
                    /\ Get(selected_components[i].specifications, "type", None) = type})

\* sum(c.specifications.get('tdp', 0) for c in selected_components
\*     if c.category in categories)
RECURSIVE SumTdp(_, _)
SumTdp(selected_components, categories) ==
    IF selected_components = <<>> THEN 0
    ELSE LET c == Head(selected_components)
         IN  (IF c.category \in categories
                 THEN Get(c.specifications, "tdp", 0) ELSE 0)
             + SumTdp(Tail(selected_components), categories)

\* load > wattage * 0.8 over integers: 10 * load > 8 * wattage
ExceedsSafetyMarginStrict(load, wattage) == 10 * load >= 8 * wattage

ExceedsSafetyMargin(load, wattage) == 10 * load > 8 * wattage

(***************************************************************************)
(* check_compatibility: the conditions under which each rule raises        *)
(* CompatibilityError, in the order of the source.                         *)
(***************************************************************************)
Spec_(component) == component.specifications

\* services.py 75-77
CpuSocketMismatch(selected_components, new_component) ==
    /\ new_component.category = "CPU"
    /\ HasCategory(selected_components, "Motherboard")
    /\ Get(Spec_(new_component), "socket", None)
         # Get(Spec_(components_by_category(selected_components, "Motherboard")),
               "socket", None)

\* services.py 79-81
MotherboardSocketMismatch(selected_components, new_component) ==
    /\ new_component.category = "Motherboard"
    /\ HasCategory(selected_components, "CPU")
    /\ Get(Spec_(new_component), "socket", None)
         # Get(Spec_(components_by_category(selected_components, "CPU")),
               "socket", None)

\* services.py 84 : the RAM rules apply when a Motherboard is selected
RamRulesApply(selected_components, new_component) ==
    /\ new_component.category = "RAM"
    /\ HasCategory(selected_components, "Motherboard")

\* services.py 86-87
RamTypeMismatch(selected_components, new_component) ==
    /\ RamRulesApply(selected_components, new_component)
    /\ Get(Spec_(new_component), "ram_type", None)
         # Get(Spec_(components_by_category(selected_components, "Motherboard")),
               "ram_type", None)

\* services.py 89-90
RamGenerationMismatch(selected_components, new_component) ==
    /\ RamRulesApply(selected_components, new_component)
    /\ Get(Spec_(new_component), "generation", None)
         # Get(Spec_(components_by_category(selected_components, "Motherboard")),
               "generation", None)

\* services.py 93-96
RamSpeedExceeds(selected_components, new_component) ==
    /\ RamRulesApply(selected_components, new_component)
    /\ Get(Spec_(new_component), "speed", 0)
         > Get(Spec_(components_by_category(selected_components, "Motherboard")),
               "max_ram_speed", 0)

\* services.py 99-101 with > in place of >=
RamSlotsFullOffByOne(selected_components, new_component) ==
    /\ RamRulesApply(selected_components, new_component)
    /\ CountCategory(selected_components, "RAM")
         > Get(Spec_(components_by_category(selected_components, "Motherboard")),
               "ram_slots", 0)

\* services.py 99-101
RamSlotsFull(selected_components, new_component) ==
    /\ RamRulesApply(selected_components, new_component)
    /\ CountCategory(selected_components, "RAM")
         >= Get(Spec_(components_by_category(selected_components, "Motherboard")),
                "ram_slots", 0)

\* services.py 104-111
GpuLengthExceeds(selected_components, new_component) ==
    /\ new_component.category = "GPU"
    /\ HasCategory(selected_components, "Case")
    /\ Get(Spec_(new_component), "length", 0)
         > Get(Spec_(components_by_category(selected_components, "Case")),
               "max_gpu_length", 0)

\* services.py 114-119 with >= in place of >
GpuTdpExceedsAtBound(selected_components, new_component) ==
    /\ new_component.category = "GPU"
    /\ HasCategory(selected_components, "PSU")
    /\ ExceedsSafetyMarginStrict(
           Get(Spec_(new_component), "tdp", 0),
           Get(Spec_(components_by_category(selected_components, "PSU")),
               "wattage", 0))

\* services.py 114-119
GpuTdpExceeds(selected_components, new_component) ==
    /\ new_component.category = "GPU"
    /\ HasCategory(selected_components, "PSU")
    /\ ExceedsSafetyMargin(
           Get(Spec_(new_component), "tdp", 0),
           Get(Spec_(components_by_category(selected_components, "PSU")),
               "wattage", 0))

\* services.py 122-124
StorageRulesApply(selected_components, new_component) ==
    /\ new_component.category = "Storage"
    /\ HasCategory(selected_components, "Motherboard")

\* services.py 126-130
NvmeSlotsFull(selected_components, new_component) ==
    /\ StorageRulesApply(selected_components, new_component)
    /\ Get(Spec_(new_component), "type", "") = "NVMe"
    /\ CountStorage(selected_components, "NVMe")
         >= Get(Spec_(components_by_category(selected_components, "Motherboard")),
                "nvme_slots", 0)

\* services.py 131-135
SataPortsFull(selected_components, new_component) ==
    /\ StorageRulesApply(selected_components, new_component)
    /\ Get(Spec_(new_component), "type", "") = "SATA"
    /\ CountStorage(selected_components, "SATA")
         >= Get(Spec_(components_by_category(selected_components, "Motherboard")),
                "sata_ports", 0)

\* services.py 138-143
CoolerSocketMismatch(selected_components, new_component) ==
    /\ new_component.category = "Cooling"
    /\ HasCategory(selected_components, "CPU")
    /\ Get(Spec_(new_component), "socket", None)
         # Get(Spec_(components_by_category(selected_components, "CPU")),
               "socket", None)

\* services.py 146-151 with >= for >
CoolerHeightExceedsAtBound(selected_components, new_component) ==
    /\ new_component.category = "Cooling"
    /\ HasCategory(selected_components, "Case")
    /\ Get(Spec_(new_component), "height", 0)
         >= Get(Spec_(components_by_category(selected_components, "Case")),
                "max_cooler_height", 0)

\* services.py 146-151
CoolerHeightExceeds(selected_components, new_component) ==
    /\ new_component.category = "Cooling"
    /\ HasCategory(selected_components, "Case")
    /\ Get(Spec_(new_component), "height", 0)
         > Get(Spec_(components_by_category(selected_components, "Case")),
               "max_cooler_height", 0)

\* services.py 154-158 with the selected PSU tested as well, as the PSU rule
\* tests the selected Case
CaseFormFactorMismatchOrPsu(selected_components, new_component) ==
    /\ new_component.category = "Case"
    /\ \/ /\ HasCategory(selected_components, "Motherboard")
          /\ Get(Spec_(components_by_category(selected_components, "Motherboard")),
                 "form_factor", None)
               \notin Get(Spec_(new_component), "form_factors", {})
       \/ /\ HasCategory(selected_components, "PSU")
          /\ Get(Spec_(components_by_category(selected_components, "PSU")),
                 "form_factor", "")
               \notin Get(Spec_(new_component), "psu_form_factors", {})

\* services.py 154-158
CaseFormFactorMismatch(selected_components, new_component) ==
    /\ new_component.category = "Case"
    /\ HasCategory(selected_components, "Motherboard")
    /\ Get(Spec_(components_by_category(selected_components, "Motherboard")),
           "form_factor", None)
         \notin Get(Spec_(new_component), "form_factors", {})

\* services.py 161-168
PsuFormFactorMismatch(selected_components, new_component) ==
    /\ new_component.category = "PSU"
    /\ HasCategory(selected_components, "Case")
    /\ Get(Spec_(new_component), "form_factor", "")
         \notin Get(Spec_(components_by_category(selected_components, "Case")),
                    "psu_form_factors", {})

\* services.py 171-178 with the sum taken over the CPU alone
PsuTdpExceedsCpuOnly(selected_components, new_component) ==
    /\ new_component.category = "PSU"
    /\ ExceedsSafetyMargin(
           SumTdp(selected_components, {"CPU"}),
           Get(Spec_(new_component), "wattage", 0))

\* services.py 171-178
PsuTdpExceeds(selected_components, new_component) ==
    /\ new_component.category = "PSU"
    /\ ExceedsSafetyMargin(
           SumTdp(selected_components, {"CPU", "GPU"}),
           Get(Spec_(new_component), "wattage", 0))

(***************************************************************************)
(* check_compatibility: the faults raised while a rule is evaluated, as    *)
(* the exception's text (NoFault when the step raises none).               *)
(***************************************************************************)
NoFault == ""

\* None.get(...)
AttributeError == "'NoneType' object has no attribute 'get'"

\* a comparison, product, sum or membership test on a value of another type
TypeError == "unsupported operand type(s)"

Missing(component) == component.specifications = NoSpecifications

\* a > b raises when one operand is a number and the other is not
CompareFault(a, b) == (a = NotANumber) # (b = NotANumber)

FirstFault(attribute_fault, type_fault) ==
    IF attribute_fault THEN AttributeError
    ELSE IF type_fault THEN TypeError ELSE NoFault

\* services.py 76
CpuSocketFault(selected_components, new_component) ==
    IF new_component.category = "CPU" /\ HasCategory(selected_components, "Motherboard")
    THEN FirstFault(Missing(new_component)
                    \/ Missing(components_by_category(selected_components, "Motherboard")),
                    FALSE)
    ELSE NoFault

\* services.py 80
MotherboardSocketFault(selected_components, new_component) ==
    IF new_component.category = "Motherboard" /\ HasCategory(selected_components, "CPU")
    THEN FirstFault(Missing(new_component)
                    \/ Missing(components_by_category(selected_components, "CPU")),
                    FALSE)
    ELSE NoFault

\* services.py 86
RamSpecificationsFault(selected_components, new_component) ==
    IF RamRulesApply(selected_components, new_component)
    THEN FirstFault(Missing(new_component)
                    \/ Missing(components_by_category(selected_components, "Motherboard")),
                    FALSE)
    ELSE NoFault

\* services.py 93-95
RamSpeedFault(selected_components, new_component) ==
    IF RamRulesApply(selected_components, new_component)
    THEN FirstFault(FALSE,
            CompareFault(Get(Spec_(new_component), "speed", 0),
                         Get(Spec_(components_by_category(selected_components, "Motherboard")),
                             "max_ram_speed", 0)))
    ELSE NoFault

\* services.py 99-100
RamSlotsFault(selected_components, new_component) ==
    IF RamRulesApply(selected_components, new_component)
    THEN FirstFault(FALSE,
            Get(Spec_(components_by_category(selected_components, "Motherboard")),
                "ram_slots", 0) = NotANumber)
    ELSE NoFault

\* services.py 106-110
GpuLengthFault(selected_components, new_component) ==
    IF new_component.category = "GPU" /\ HasCategory(selected_components, "Case")
    THEN FirstFault(Missing(new_component)
                    \/ Missing(components_by_category(selected_components, "Case")),
            CompareFault(Get(Spec_(new_component), "length", 0),
                         Get(Spec_(components_by_category(selected_components, "Case")),
                             "max_gpu_length", 0)))
    ELSE NoFault

\* services.py 114-118: psu_wattage * 0.8, then gpu_tdp > the product
GpuTdpFault(selected_components, new_component) ==
    IF new_component.category = "GPU" /\ HasCategory(selected_components, "PSU")
    THEN FirstFault(Missing(new_component)
                    \/ Missing(components_by_category(selected_components, "PSU")),
            \/ Get(Spec_(components_by_category(selected_components, "PSU")),
                   "wattage", 0) = NotANumber
            \/ Get(Spec_(new_component), "tdp", 0) = NotANumber)
    ELSE NoFault

\* services.py 124
StorageTypeFault(selected_components, new_component) ==
    IF StorageRulesApply(selected_components, new_component)
    THEN FirstFault(Missing(new_component), FALSE)
    ELSE NoFault

\* c.specifications.get('type') of the selected Storage entries
StorageCountFault(selected_components) ==
    \E i \in 1..Len(selected_components) :
        /\ selected_components[i].category = "Storage"
        /\ Missing(selected_components[i])

\* services.py 127-129
NvmeSlotsFault(selected_components, new_component) ==
    IF /\ StorageRulesApply(selected_components, new_component)
       /\ Get(Spec_(new_component), "type", "") = "NVMe"
    THEN FirstFault(Missing(components_by_category(selected_components, "Motherboard"))
                    \/ StorageCountFault(selected_components),
            Get(Spec_(components_by_category(selected_components, "Motherboard")),
                "nvme_slots", 0) = NotANumber)
    ELSE NoFault

\* services.py 132-134
SataPortsFault(selected_components, new_component) ==
    IF /\ StorageRulesApply(selected_components, new_component)
       /\ Get(Spec_(new_component), "type", "") = "SATA"
    THEN FirstFault(Missing(components_by_category(selected_components, "Motherboard"))
                    \/ StorageCountFault(selected_components),
            Get(Spec_(components_by_category(selected_components, "Motherboard")),
                "sata_ports", 0) = NotANumber)
    ELSE NoFault

\* services.py 142
CoolerSocketFault(selected_components, new_component) ==
    IF new_component.category = "Cooling" /\ HasCategory(selected_components, "CPU")
    THEN FirstFault(Missing(new_component)
                    \/ Missing(components_by_category(selected_components, "CPU")),
                    FALSE)
    ELSE NoFault

\* services.py 148-150
CoolerHeightFault(selected_components, new_component) ==
    IF new_component.category = "Cooling" /\ HasCategory(selected_components, "Case")
    THEN FirstFault(Missing(new_component)
                    \/ Missing(components_by_category(selected_components, "Case")),
            CompareFault(Get(Spec_(new_component), "height", 0),
                         Get(Spec_(components_by_category(selected_components, "Case")),
                             "max_cooler_height", 0)))
    ELSE NoFault

\* services.py 156-157
CaseFormFactorFault(selected_components, new_component) ==
    IF new_component.category = "Case" /\ HasCategory(selected_components, "Motherboard")
    THEN FirstFault(Missing(new_component)
                    \/ Missing(components_by_category(selected_components, "Motherboard")),
            Get(Spec_(new_component), "form_factors", {}) = NotASequence)
    ELSE NoFault

\* services.py 165-167
PsuFormFactorFault(selected_components, new_component) ==
    IF new_component.category = "PSU" /\ HasCategory(selected_components, "Case")
    THEN FirstFault(Missing(new_component)
                    \/ Missing(components_by_category(selected_components, "Case")),
            Get(Spec_(components_by_category(selected_components, "Case")),
                "psu_form_factors", {}) = NotASequence)
    ELSE NoFault

\* The selected CPU or GPU entry at position i stops the sum of services.py
\* 171-175: it has no specifications mapping or its tdp is not a number.
StopsTdpSum(selected_components, i) ==
    /\ selected_components[i].category \in {"CPU", "GPU"}
    /\ \/ Missing(selected_components[i])
       \/ Get(Spec_(selected_components[i]), "tdp", 0) = NotANumber

\* services.py 171-177: the sum over the selected CPU and GPU entries in
\* list order, then the candidate's wattage and the product wattage * 0.8
PsuTdpFault(selected_components, new_component) ==
    IF new_component.category # "PSU" THEN NoFault
    ELSE IF \E i \in 1..Len(selected_components) : StopsTdpSum(selected_components, i)
    THEN LET first == CHOOSE i \in 1..Len(selected_components) :
                         /\ StopsTdpSum(selected_components, i)
                         /\ \A j \in 1..(i-1) : ~StopsTdpSum(selected_components, j)
         IN  FirstFault(Missing(selected_components[first]), TRUE)
    ELSE FirstFault(Missing(new_component),
                    Get(Spec_(new_component), "wattage", 0) = NotANumber)

(***************************************************************************)
(* check_compatibility (services.py 61-185): True, or the first            *)
(* CompatibilityError raised.                                              *)
(***************************************************************************)
Compatible == [type |-> "True", message |-> ""]

CompatibilityError(message) == [type |-> "CompatibilityError", message |-> message]

\* An exception other than CompatibilityError, raised inside the try block.
Fault(message) == [type |-> "Exception", message |-> message]

\* The body of the try block (services.py 68-180).
evaluate_rules(selected_components, new_component) ==
    IF CpuSocketFault(selected_components, new_component) # NoFault
    THEN Fault(CpuSocketFault(selected_components, new_component))
    ELSE IF CpuSocketMismatch(selected_components, new_component)
    THEN CompatibilityError("CPU socket is not compatible with the motherboard")
    ELSE IF MotherboardSocketFault(selected_components, new_component) # NoFault
    THEN Fault(MotherboardSocketFault(selected_components, new_component))
    ELSE IF MotherboardSocketMismatch(selected_components, new_component)
    THEN CompatibilityError("Motherboard socket is not compatible with the CPU")
    ELSE IF RamSpecificationsFault(selected_components, new_component) # NoFault
    THEN Fault(RamSpecificationsFault(selected_components, new_component))
    ELSE IF RamTypeMismatch(selected_components, new_component)
    THEN CompatibilityError("RAM type is not compatible with the motherboard")
    ELSE IF RamGenerationMismatch(selected_components, new_component)
    THEN CompatibilityError("RAM generation is not compatible with the motherboard")
    ELSE IF RamSpeedFault(selected_components, new_component) # NoFault
    THEN Fault(RamSpeedFault(selected_components, new_component))
    ELSE IF RamSpeedExceeds(selected_components, new_component)
    THEN CompatibilityError("RAM speed exceeds motherboard's maximum supported speed")
    ELSE IF RamSlotsFault(selected_components, new_component) # NoFault
    THEN Fault(RamSlotsFault(selected_components, new_component))
    ELSE IF RamSlotsFull(selected_components, new_component)
    THEN CompatibilityError("No more RAM slots available on the motherboard")
    ELSE IF GpuLengthFault(selected_components, new_component) # NoFault
    THEN Fault(GpuLengthFault(selected_components, new_component))
    ELSE IF GpuLengthExceeds(selected_components, new_component)
    THEN CompatibilityError("GPU length exceeds case's maximum supported length")
    ELSE IF GpuTdpFault(selected_components, new_component) # NoFault
    THEN Fault(GpuTdpFault(selected_components, new_component))
    ELSE IF GpuTdpExceeds(selected_components, new_component)
    THEN CompatibilityError("GPU TDP exceeds recommended PSU wattage")
    ELSE IF StorageTypeFault(selected_components, new_component) # NoFault
    THEN Fault(StorageTypeFault(selected_components, new_component))
    ELSE IF NvmeSlotsFault(selected_components, new_component) # NoFault
    THEN Fault(NvmeSlotsFault(selected_components, new_component))
    ELSE IF NvmeSlotsFull(selected_components, new_component)
    THEN CompatibilityError("No more NVMe slots available on the motherboard")
    ELSE IF SataPortsFault(selected_components, new_component) # NoFault
    THEN Fault(SataPortsFault(selected_components, new_component))
    ELSE IF SataPortsFull(selected_components, new_component)
    THEN CompatibilityError("No more SATA ports available on the motherboard")
    ELSE IF CoolerSocketFault(selected_components, new_component) # NoFault
    THEN Fault(CoolerSocketFault(selected_components, new_component))
    ELSE IF CoolerSocketMismatch(selected_components, new_component)
    THEN CompatibilityError("Cooler socket is not compatible with the CPU")
    ELSE IF CoolerHeightFault(selected_components, new_component) # NoFault
    THEN Fault(CoolerHeightFault(selected_components, new_component))
    ELSE IF CoolerHeightExceeds(selected_components, new_component)
    THEN CompatibilityError("Cooler height exceeds case's maximum supported height")
    ELSE IF CaseFormFactorFault(selected_components, new_component) # NoFault
    THEN Fault(CaseFormFactorFault(selected_components, new_component))
    ELSE IF CaseFormFactorMismatch(selected_components, new_component)
    THEN CompatibilityError("Motherboard form factor is not compatible with the case")
    ELSE IF PsuFormFactorFault(selected_components, new_component) # NoFault
    THEN Fault(PsuFormFactorFault(selected_components, new_component))
    ELSE IF PsuFormFactorMismatch(selected_components, new_component)
    THEN CompatibilityError("PSU form factor is not compatible with the case")
    ELSE IF PsuTdpFault(selected_components, new_component) # NoFault
    THEN Fault(PsuTdpFault(selected_components, new_component))
    ELSE IF PsuTdpExceeds(selected_components, new_component)
    THEN CompatibilityError("Total component TDP exceeds recommended PSU wattage")
    ELSE Compatible

\* check_compatibility without the handler of services.py 184-185
check_compatibility_unhandled(selected_components, new_component) ==
    evaluate_rules(selected_components, new_component)

\* except CompatibilityError: raise
\* except Exception as e:
\*     raise CompatibilityError(f"Error checking compatibility: {str(e)}")
check_compatibility(selected_components, new_component) ==
    LET raised == evaluate_rules(selected_components, new_component)
    IN  IF raised.type = "Exception"
        THEN CompatibilityError("Error checking compatibility: " \o raised.message)
        ELSE raised

(***************************************************************************)
(* Inputs of the compatibility engine: components drawn from bounded       *)
(* families of specification values.  Each family varies the keys one      *)
(* group of rules reads, absent keys included.                             *)
(***************************************************************************)
Key(key, values) == {key :> v : v \in values}

OptKey(key, values) == Key(key, values) \cup {EmptySpec}

Merge(S, T) == {s @@ t : s \in S, t \in T}

Component(category, specifications) ==
    [category |-> category, specifications |-> specifications]

OfCategory(category, specs) == {Component(category, s) : s \in specs}

Sockets == {"AM4", "LGA1700"}

\* One component of each category, after the fixtures of tests.py 14-127.
Fixtures ==
    {Component("CPU", ("socket" :> "LGA1700") @@ ("tdp" :> 4)),
     Component("Motherboard",
               ("socket" :> "LGA1700") @@ ("ram_type" :> "DDR5")
               @@ ("ram_slots" :> 2) @@ ("form_factor" :> "ATX")
               @@ ("max_ram_speed" :> 2) @@ ("nvme_slots" :> 1)
               @@ ("sata_ports" :> 1)),
     Component("RAM", ("ram_type" :> "DDR5") @@ ("speed" :> 1)
                      @@ ("generation" :> "DDR5")),
     Component("PSU", ("wattage" :> 10) @@ ("form_factor" :> "ATX")),
     Component("Case", ("form_factors" :> {"ATX", "Micro-ATX"})
                       @@ ("max_gpu_length" :> 3) @@ ("max_cooler_height" :> 3)
                       @@ ("psu_form_factors" :> {"ATX", "SFX"})),
     Component("GPU", ("length" :> 3) @@ ("tdp" :> 4)),
     Component("Storage", "type" :> "NVMe"),
     Component("Cooling", ("socket" :> "LGA1700") @@ ("height" :> 3)
                          @@ ("type" :> "Air"))}

Families == {"socket", "ram", "gpu", "psu", "storage", "cooling", "case", "fixtures"}

\* The family of components with malformed specifications.
MalformedFamilies == {"malformed"}

SoundMotherboard ==
    ("socket" :> "LGA1700") @@ ("ram_type" :> "DDR5") @@ ("max_ram_speed" :> 2)
    @@ ("ram_slots" :> 1) @@ ("nvme_slots" :> 1) @@ ("form_factor" :> "ATX")

\* The components a caller may have selected, per family.
SelectableComponents(f) ==
    CASE f = "socket" ->
           OfCategory("CPU", OptKey("socket", Sockets))
           \cup OfCategory("Motherboard", OptKey("socket", Sockets))
      [] f = "ram" ->
           OfCategory("Motherboard",
                      Merge(Key("ram_type", {"DDR5"}),
                      Merge(OptKey("generation", {"DDR5"}),
                      Merge(Key("max_ram_speed", {1}),
                            OptKey("ram_slots", {1, 2})))))
           \cup OfCategory("RAM", Key("ram_type", {"DDR4"}))
      [] f = "gpu" ->
           OfCategory("Case", OptKey("max_gpu_length", {3}))
           \cup OfCategory("PSU", OptKey("wattage", {5, 10}))
      [] f = "psu" ->
           OfCategory("Case", OptKey("psu_form_factors", {{"ATX"}, {"ATX", "SFX"}}))
           \cup OfCategory("CPU", OptKey("tdp", {4, 5}))
           \cup OfCategory("GPU", Key("tdp", {4}))
      [] f = "storage" ->
           OfCategory("Motherboard", Merge(OptKey("nvme_slots", {1, 2}),
                                           OptKey("sata_ports", {1})))
           \cup OfCategory("Storage", OptKey("type", {"NVMe", "SATA"}))
      [] f = "cooling" ->
           OfCategory("CPU", OptKey("socket", Sockets))
           \cup OfCategory("Case", OptKey("max_cooler_height", {3}))
      [] f = "case" ->
           OfCategory("Motherboard", OptKey("form_factor", {"ATX", "Mini-ITX"}))
           \cup OfCategory("PSU", OptKey("form_factor", {"SFX"}))
      [] f = "malformed" ->
           OfCategory("Motherboard",
                      {NoSpecifications, SoundMotherboard,
                       ("ram_slots" :> NotANumber) @@ ("nvme_slots" :> NotANumber)
                       @@ SoundMotherboard})
           \cup OfCategory("Case",
                      {NoSpecifications,
                       ("psu_form_factors" :> NotASequence)
                       @@ ("max_gpu_length" :> NotANumber)
                       @@ ("max_cooler_height" :> 3)})
           \cup OfCategory("CPU",
                      {NoSpecifications,
                       ("socket" :> "LGA1700") @@ ("tdp" :> NotANumber)})
           \cup OfCategory("PSU", {"wattage" :> NotANumber})
           \cup OfCategory("Storage", {NoSpecifications})
      [] OTHER -> Fixtures

\* The candidates a caller may ask about, per family.
CandidateComponents(f) ==
    CASE f = "socket" ->
           OfCategory("CPU", OptKey("socket", Sockets))
           \cup OfCategory("Motherboard", OptKey("socket", Sockets))
      [] f = "ram" ->
           OfCategory("RAM",
                      Merge(Key("ram_type", {"DDR4", "DDR5"}),
                      Merge(OptKey("generation", {"DDR4", "DDR5"}),
                            OptKey("speed", {1, 2}))))
      [] f = "gpu" ->
           OfCategory("GPU", Merge(OptKey("length", {3, 4}),
                                   OptKey("tdp", {4, 5, 8, 9})))
      [] f = "psu" ->
           OfCategory("PSU", Merge(OptKey("form_factor", {"ATX", "SFX"}),
                                   OptKey("wattage", {5, 10})))
      [] f = "storage" ->
           OfCategory("Storage", OptKey("type", {"NVMe", "SATA", "HDD"}))
      [] f = "cooling" ->
           OfCategory("Cooling", Merge(OptKey("socket", Sockets),
                                       OptKey("height", {3, 4})))
      [] f = "case" ->
           OfCategory("Case", Merge(OptKey("form_factors", {{"ATX"}, {"ATX", "Micro-ATX"}}),
                                    OptKey("psu_form_factors", {{"ATX"}})))
      [] f = "malformed" ->
           OfCategory("CPU", {NoSpecifications, "socket" :> "LGA1700"})
           \cup OfCategory("Motherboard", {NoSpecifications})
           \cup OfCategory("RAM",
                      {NoSpecifications,
                       ("ram_type" :> "DDR5") @@ ("speed" :> NotANumber),
                       ("ram_type" :> "DDR4") @@ ("speed" :> NotANumber)})
           \cup OfCategory("GPU",
                      {NoSpecifications, "length" :> NotANumber,
                       ("length" :> 1) @@ ("tdp" :> NotANumber)})
           \cup OfCategory("Storage", {NoSpecifications, "type" :> "NVMe"})
           \cup OfCategory("Cooling",
                      {NoSpecifications,
                       ("socket" :> "LGA1700") @@ ("height" :> NotANumber)})
           \cup OfCategory("Case",
                      {NoSpecifications, "form_factors" :> NotASequence})
           \cup OfCategory("PSU",
                      {NoSpecifications, "wattage" :> NotANumber,
                       ("wattage" :> 10) @@ ("form_factor" :> "ATX")})
      [] OTHER -> Fixtures

NoComponent == Component("None", EmptySpec)

NotChecked == [type |-> "NotChecked", message |-> ""]

(***************************************************************************)
(* State.                                                                  *)
(***************************************************************************)
VARIABLES
    family,               \* the family the engine's inputs are drawn from
    selected_components,  \* check_compatibility: the selected components
    new_component,        \* check_compatibility: the candidate last checked
    verdict,              \* check_compatibility: its result for that candidate
    components_data,      \* validate_components: the parts list of the request
    outcome,              \* validate_components: what validate_build did with it
    price,                \* Component.price of every catalog row
    cache,                \* django cache: component id -> cached snapshot
    price_changes,        \* how many catalog price changes have happened
    build,                \* the PCBuild row and its BuildComponent rows
    result,               \* the last assembler call: what it computed and raised
    unsaved_relation_raises, \* the ORM in use: reverse relation of an unsaved row
    repeated,             \* the last validation repeated the one before it
    pending,              \* the assembler call in progress, statement by statement
    observed,             \* what a concurrent reader last read of the build
    compatible,           \* get_compatible_components: what the last call did
    compatible_cache,     \* django cache: the cached compatible-components lists
    inventory             \* a component's stock, its alerts and its reorder

engineVars == <<family, selected_components, new_component, verdict>>

requestVars == <<components_data, outcome>>

catalogVars == <<price, cache, price_changes>>

buildVars == <<build, result, unsaved_relation_raises>>

processVars == <<repeated, pending, observed>>

inventoryVars == <<compatible, compatible_cache, inventory>>

vars == <<engineVars, requestVars, catalogVars, buildVars, processVars, inventoryVars>>

InitEngine ==
    /\ family \in Families
    /\ selected_components = <<>>
    /\ new_component = NoComponent
    /\ verdict = NotChecked

(***************************************************************************)
(* The catalog (Component rows).  Identity, category and specifications    *)
(* are fixed; price changes over time.  The last row is the DDR4 kit of    *)
(* tests.py 154-166.                                                       *)
(***************************************************************************)
Catalog ==
    << Component("CPU", ("socket" :> "LGA1700") @@ ("tdp" :> 4)),
       Component("Motherboard",
                 ("socket" :> "LGA1700") @@ ("ram_type" :> "DDR5")
                 @@ ("generation" :> "DDR5") @@ ("ram_slots" :> 1)
                 @@ ("form_factor" :> "ATX") @@ ("max_ram_speed" :> 2)
                 @@ ("nvme_slots" :> 1) @@ ("sata_ports" :> 1)),
       Component("RAM", ("ram_type" :> "DDR5") @@ ("speed" :> 1)
                        @@ ("generation" :> "DDR5")),
       Component("PSU", ("wattage" :> 10) @@ ("form_factor" :> "ATX")),
       Component("Case", ("form_factors" :> {"ATX", "Micro-ATX"})
                         @@ ("max_gpu_length" :> 3) @@ ("max_cooler_height" :> 3)
                         @@ ("psu_form_factors" :> {"ATX", "SFX"})),
       Component("CPU", ("socket" :> "AM4") @@ ("tdp" :> 5)),
       Component("GPU", ("length" :> 3) @@ ("tdp" :> 4)),
       Component("RAM", ("ram_type" :> "DDR4") @@ ("speed" :> 1)
                        @@ ("generation" :> "DDR4")) >>

ComponentIds == DOMAIN Catalog

\* An id no Component row has.
UnknownId == Len(Catalog) + 1

\* The ids a request may name.
RequestIds == ComponentIds \cup {UnknownId}

\* Component.price values (DecimalField), in whole units.
Prices == {1, 2}

\* cache.get(key) is None
CacheMiss == 0

InitCatalog ==
    /\ price = [id \in ComponentIds |-> 1]
    /\ cache = [id \in ComponentIds |-> CacheMiss]
    /\ price_changes = 0

\* Component.objects.get(id=component_id), for an existing row
ComponentRow(component_id) ==
    [id |-> component_id,
     category |-> Catalog[component_id].category,
     specifications |-> Catalog[component_id].specifications,
     price |-> price[component_id]]

\* get_component (services.py 31-41): the cached snapshot if there is one,
\* else the row; used where the id exists.
get_component(component_id) ==
    IF cache[component_id] # CacheMiss
    THEN [ComponentRow(component_id) EXCEPT !.price = cache[component_id]]
    ELSE ComponentRow(component_id)

\* Whether get_component raises Component.DoesNotExist.
DoesNotExist(component_id) == component_id \notin ComponentIds

(***************************************************************************)
(* validate_build (services.py 187-213).                                   *)
(***************************************************************************)
MaxParts == 6

\* One entry of components_data; 'quantity' may be absent.
Item(component_id) == "component_id" :> component_id

ItemWithQuantity(component_id, quantity) ==
    ("component_id" :> component_id) @@ ("quantity" :> quantity)

NoOutcome ==
    [type |-> "None", message |-> "", missing |-> {}, components |-> <<>>]

Raised(type, message) == [NoOutcome EXCEPT !.type = type, !.message = message]

\* The position of the first entry whose lookup raises, 0 if none does.
FirstUnknown(data) ==
    IF \E i \in 1..Len(data) : DoesNotExist(data[i].component_id)
    THEN CHOOSE i \in 1..Len(data) :
            /\ DoesNotExist(data[i].component_id)
            /\ \A j \in 1..(i-1) : ~DoesNotExist(data[j].component_id)
    ELSE 0

\* The ids get_component is called with and finds (services.py 198-200).
LookedUp(data) ==
    {data[i].component_id :
        i \in 1..(IF FirstUnknown(data) = 0 THEN Len(data) ELSE FirstUnknown(data) - 1)}

\* cache.set under a key that every component shares: the snapshot kept for
\* an id is the one of component 1
CacheAfterSharedKey(data) ==
    [id \in ComponentIds |->
        IF id \in LookedUp(data) /\ cache[id] = CacheMiss THEN price[1] ELSE cache[id]]

\* cache.set(cache_key, component) on every miss (services.py 37-39)
CacheAfter(data) ==
    [id \in ComponentIds |->
        IF id \in LookedUp(data) /\ cache[id] = CacheMiss THEN price[id] ELSE cache[id]]

\* components[:i] + components[i + 1:]  (i counted from 1)
other_components_before(components, i) == SubSeq(components, 1, i - 1)

\* components[i + 1:] alone
other_components_after(components, i) == SubSeq(components, i + 1, Len(components))

other_components(components, i) ==
    SubSeq(components, 1, i - 1) \o SubSeq(components, i + 1, Len(components))

\* The first position whose check raises, 0 if none (services.py 209-211).
RECURSIVE FirstIncompatible(_, _)
FirstIncompatible(components, i) ==
    IF i > Len(components) THEN 0
    ELSE IF check_compatibility(other_components(components, i), components[i])
              # Compatible
         THEN i
         ELSE FirstIncompatible(components, i + 1)

\* set(cls.REQUIRED_COMPONENTS) - selected_categories, missing a category
\* only if no component of the list has it
missing_categories_any(components) == REQUIRED_COMPONENTS \ {components[1].category}

missing_categories(components) ==
    REQUIRED_COMPONENTS \ {components[i].category : i \in 1..Len(components)}

\* validate_build with the required categories tested on the entries that
\* resolve, before an unknown id is reported
validate_build_missing_first(data) ==
    IF data = <<>> THEN Raised("ValueError", "No components provided")
    ELSE LET known == SelectSeq(data, LAMBDA item : ~DoesNotExist(item.component_id))
             components == [i \in 1..Len(known) |-> get_component(known[i].component_id)]
             missing == REQUIRED_COMPONENTS
                          \ {components[i].category : i \in 1..Len(components)}
             failing == FirstIncompatible(components, 1)
         IN  IF missing # {}
             THEN [Raised("ValueError", "Missing required components")
                      EXCEPT !.missing = missing]
             ELSE IF FirstUnknown(data) # 0 THEN Raised("DoesNotExist", "")
             ELSE IF failing # 0
             THEN LET error == check_compatibility(
                                  other_components(components, failing),
                                  components[failing])
                  IN  Raised(error.type, error.message)
             ELSE [NoOutcome EXCEPT !.type = "ok", !.components = components]

\* The line's quantity, 1 when the line names none (services.py 246).
QuantityOf(item) == IF "quantity" \in DOMAIN item THEN item.quantity ELSE 1

\* The parts list with every line repeated as many times as its quantity.
RECURSIVE PerUnit(_)
PerUnit(data) ==
    IF data = <<>> THEN <<>>
    ELSE [i \in 1..QuantityOf(data[1]) |-> data[1]] \o PerUnit(Tail(data))

\* validate_build with a line of quantity n checked as n entries
validate_build_per_unit(data) ==
    IF data = <<>> THEN Raised("ValueError", "No components provided")
    ELSE IF FirstUnknown(data) # 0 THEN Raised("DoesNotExist", "")
    ELSE LET components == [i \in 1..Len(PerUnit(data)) |->
                               get_component(PerUnit(data)[i].component_id)]
             failing == FirstIncompatible(components, 1)
         IN  IF missing_categories(components) # {}
             THEN [Raised("ValueError", "Missing required components")
                      EXCEPT !.missing = missing_categories(components)]
             ELSE IF failing # 0
             THEN LET error == check_compatibility(
                                  other_components(components, failing),
                                  components[failing])
                  IN  Raised(error.type, error.message)
             ELSE [NoOutcome EXCEPT !.type = "ok",
                                    !.components = [i \in 1..Len(data) |->
                                                      get_component(data[i].component_id)]]

validate_build(data) ==
    IF data = <<>> THEN Raised("ValueError", "No components provided")
    ELSE IF FirstUnknown(data) # 0 THEN Raised("DoesNotExist", "")
    ELSE LET components == [i \in 1..Len(data) |-> get_component(data[i].component_id)]
             failing == FirstIncompatible(components, 1)
         IN  IF missing_categories(components) # {}
             THEN [Raised("ValueError", "Missing required components")
                      EXCEPT !.missing = missing_categories(components)]
             ELSE IF failing # 0
             THEN LET error == check_compatibility(
                                  other_components(components, failing),
                                  components[failing])
                  IN  Raised(error.type, error.message)
             ELSE [NoOutcome EXCEPT !.type = "ok", !.components = components]

(***************************************************************************)
(* The PCBuild row with its BuildComponent rows (models.py 105-142, with   *)
(* the row fields services.py 243-248 writes).                             *)
(***************************************************************************)
NoBuild ==
    [exists |-> FALSE, is_public |-> FALSE, share_token |-> None,
     total_price |-> 0, rows |-> <<>>]

NoResult == [op |-> "None", error |-> "None", total_price |-> 0, previous_ids |-> {}]

\* No create_build or update_build call is in progress.
NoPending ==
    [pc |-> "idle", op |-> "None", data |-> <<>>, is_public |-> "None",
     components |-> <<>>, total_price |-> 0,
     previous_rows |-> <<>>, previous_total_price |-> 0, price_changes |-> 0]

\* The reader has read nothing yet.
NoObservation == [seen |-> FALSE, rows |-> <<>>, total_price |-> 0, during |-> NoPending]

\* get_compatible_components has not been called.
NotAsked == [type |-> "None", message |-> "", components |-> {}]

\* The stock of one component (models.py 35, 40), the unresolved
\* InventoryAlert rows for it, the one Reorder for it, how many times that
\* Reorder has been added to the stock, and the last inventory request.
NoReorder == [exists |-> FALSE, quantity |-> 0, status |-> "None"]

NoResponse == [op |-> "None", status |-> "None", stock_before |-> 0]

NoInventory ==
    [stock |-> 0, reorder_point |-> 0, alerts |-> <<>>, reorder |-> NoReorder,
     credited |-> 0, response |-> NoResponse]

InitProcess ==
    /\ repeated = FALSE
    /\ pending = NoPending
    /\ observed = NoObservation
    /\ compatible = NotAsked
    /\ compatible_cache = {}

InitNoInventory == inventory = NoInventory

InitNoBuild ==
    /\ build = NoBuild
    /\ result = NoResult
    /\ unsaved_relation_raises = FALSE
    /\ InitProcess
    /\ InitNoInventory

InitRequest ==
    /\ components_data = <<>>
    /\ outcome = NoOutcome

(***************************************************************************)
(* The validation endpoint (views.py 160-166): the caller submits a parts  *)
(* list and has it validated without saving.  The first request is the     *)
(* empty list; every later one is the previous request with one more       *)
(* entry.                                                                  *)
(***************************************************************************)
NextRequests ==
    IF outcome = NoOutcome
    THEN {components_data}
    ELSE {Append(components_data, Item(id)) :
             id \in {i \in RequestIds : Len(components_data) < MaxParts}}

ValidateComponents ==
    \E data \in NextRequests :
        /\ components_data' = data
        /\ outcome' = validate_build(data)
        /\ cache' = CacheAfter(data)
        /\ UNCHANGED <<inventoryVars, price, price_changes, engineVars, buildVars, processVars>>

NextValidate == ValidateComponents

InitIdleEngine ==
    /\ family = "fixtures"
    /\ selected_components = <<>>
    /\ new_component = NoComponent
    /\ verdict = NotChecked

InitValidate == InitIdleEngine /\ InitRequest /\ InitCatalog /\ InitNoBuild

SpecValidate == InitValidate /\ [][NextValidate]_vars

(***************************************************************************)
(* The compatibility endpoint (views.py 76-84): the caller names the       *)
(* selected components, then asks about one candidate.                     *)
(***************************************************************************)
SelectComponent ==
    \E c \in SelectableComponents(family) :
        /\ Len(selected_components) < MaxSelected
        /\ selected_components' = Append(selected_components, c)
        /\ new_component' = NoComponent
        /\ verdict' = NotChecked
        /\ UNCHANGED <<inventoryVars, family, requestVars, catalogVars, buildVars, processVars>>

CheckCompatibility ==
    \E c \in CandidateComponents(family) :
        /\ new_component' = c
        /\ verdict' = check_compatibility(selected_components, c)
        /\ UNCHANGED <<inventoryVars, family, selected_components, requestVars, catalogVars, buildVars,
                     processVars>>

NextCompat == SelectComponent \/ CheckCompatibility

InitCompat == InitEngine /\ InitRequest /\ InitCatalog /\ InitNoBuild

SpecCompat == InitCompat /\ [][NextCompat]_vars

\* The same endpoint, called with malformed components.
InitMalformedEngine ==
    /\ family \in MalformedFamilies
    /\ selected_components = <<>>
    /\ new_component = NoComponent
    /\ verdict = NotChecked

InitFault == InitMalformedEngine /\ InitRequest /\ InitCatalog /\ InitNoBuild

SpecFault == InitFault /\ [][NextCompat]_vars

(***************************************************************************)
(* Properties of the compatibility engine, checked under SpecCompat.       *)
(***************************************************************************)
Accepted == verdict = Compatible

Rejected == verdict.type = "CompatibilityError"

\* Position i holds the first selected component of the category.
IsFirstOf(i, category) ==
    /\ i \in 1..Len(selected_components)
    /\ selected_components[i].category = category
    /\ \A j \in 1..(i-1) : selected_components[j].category # category

SocketOf(component) == Get(component.specifications, "socket", None)

\* C1: with a Motherboard selected, a CPU candidate is accepted iff its
\* socket equals the socket of the first selected Motherboard; with a CPU
\* selected, a Motherboard candidate is accepted iff its socket equals the
\* first selected CPU's; a mismatch is a CompatibilityError.
C1_SocketRule ==
    /\ new_component.category = "CPU" =>
         \A i \in 1..Len(selected_components) :
            IsFirstOf(i, "Motherboard") =>
               /\ Accepted <=> SocketOf(new_component) = SocketOf(selected_components[i])
               /\ ~Accepted => Rejected
    /\ new_component.category = "Motherboard" =>
         \A i \in 1..Len(selected_components) :
            IsFirstOf(i, "CPU") =>
               /\ Accepted <=> SocketOf(new_component) = SocketOf(selected_components[i])
               /\ ~Accepted => Rejected

\* A CPU accepted on the first Motherboard's socket although a second
\* selected Motherboard has another socket.
C1_Witness ==
    /\ new_component.category = "CPU"
    /\ Accepted
    /\ \E i, j \in 1..Len(selected_components) :
          /\ IsFirstOf(i, "Motherboard")
          /\ i < j
          /\ selected_components[j].category = "Motherboard"
          /\ SocketOf(selected_components[j]) # SocketOf(new_component)
          /\ SocketOf(selected_components[i]) = SocketOf(new_component)

RamTypeOk(ram, motherboard) ==
    Get(ram.specifications, "ram_type", None)
      = Get(motherboard.specifications, "ram_type", None)

RamGenerationOk(ram, motherboard) ==
    Get(ram.specifications, "generation", None)
      = Get(motherboard.specifications, "generation", None)

RamSpeedOk(ram, motherboard) ==
    Get(ram.specifications, "speed", 0)
      <= Get(motherboard.specifications, "max_ram_speed", 0)

SelectedRamCount ==
    Cardinality({i \in 1..Len(selected_components) :
                    selected_components[i].category = "RAM"})

RamSlotFree(motherboard) ==
    SelectedRamCount < Get(motherboard.specifications, "ram_slots", 0)

C24_AbsentGeneration ==
    (new_component.category = "RAM" /\ "generation" \in DOMAIN new_component.specifications) =>
        \A i \in 1..Len(selected_components) :
            (/\ IsFirstOf(i, "Motherboard")
             /\ "generation" \notin DOMAIN selected_components[i].specifications
             /\ RamTypeOk(new_component, selected_components[i])
             /\ RamSpeedOk(new_component, selected_components[i])
             /\ RamSlotFree(selected_components[i])) => Accepted

GpuLengthOk(gpu, case) ==
    Get(gpu.specifications, "length", 0)
      <= Get(case.specifications, "max_gpu_length", 0)

\* tdp <= 0.8 * wattage
GpuPowerOk(gpu, psu) ==
    5 * Get(gpu.specifications, "tdp", 0) <= 4 * Get(psu.specifications, "wattage", 0)

PsuFormFactorOk(psu, case) ==
    Get(psu.specifications, "form_factor", "")
      \in Get(case.specifications, "psu_form_factors", {})

\* The tdp of the selected CPU and GPU components, summed by position.
RECURSIVE SelectedLoad(_)
SelectedLoad(n) ==
    IF n = 0 THEN 0
    ELSE SelectedLoad(n - 1)
         + (IF selected_components[n].category \in {"CPU", "GPU"}
               THEN Get(selected_components[n].specifications, "tdp", 0)
               ELSE 0)

\* C4: a PSU candidate is accepted iff (no Case is selected or its
\* form_factor is among the Case's psu_form_factors) and the tdp of the
\* selected CPU and GPU components sums to at most 0.8 times its wattage,
\* with or without a Case; a sum equal to 0.8 * wattage is accepted.
C4_PsuRule ==
    new_component.category = "PSU" =>
       /\ Accepted <=>
            /\ \A i \in 1..Len(selected_components) :
                  IsFirstOf(i, "Case") => PsuFormFactorOk(new_component, selected_components[i])
            /\ 5 * SelectedLoad(Len(selected_components))
                 <= 4 * Get(new_component.specifications, "wattage", 0)
       /\ ~Accepted => Rejected

\* A PSU accepted with no Case selected, a CPU and a GPU selected whose
\* tdp sums to exactly 0.8 times the wattage.
C4_Witness ==
    /\ new_component.category = "PSU"
    /\ Accepted
    /\ ~HasCategory(selected_components, "Case")
    /\ HasCategory(selected_components, "CPU")
    /\ HasCategory(selected_components, "GPU")
    /\ SelectedLoad(Len(selected_components)) > 0
    /\ 5 * SelectedLoad(Len(selected_components))
         = 4 * Get(new_component.specifications, "wattage", 0)

\* The candidate's specifications are read by a rule: a component of the
\* category the rule looks at is selected (the PSU rule always reads them).
ReadsCandidate ==
    \/ /\ new_component.category \in {"CPU", "RAM", "Storage", "Case"}
       /\ \E i \in 1..Len(selected_components) :
             selected_components[i].category = "Motherboard"
    \/ /\ new_component.category \in {"Motherboard", "Cooling"}
       /\ \E i \in 1..Len(selected_components) :
             selected_components[i].category = "CPU"
    \/ /\ new_component.category \in {"GPU", "Cooling"}
       /\ \E i \in 1..Len(selected_components) :
             selected_components[i].category = "Case"
    \/ /\ new_component.category = "GPU"
       /\ \E i \in 1..Len(selected_components) :
             selected_components[i].category = "PSU"
    \/ new_component.category = "PSU"

FaultMessages ==
    {"Error checking compatibility: " \o AttributeError,
     "Error checking compatibility: " \o TypeError}

\* C11: every call of check_compatibility, malformed specifications
\* included, returns True or raises CompatibilityError, never another
\* error; a candidate without a specifications mapping that a rule reads is
\* rejected with a CompatibilityError whose message describes the fault.
C11_Total ==
    verdict # NotChecked =>
       /\ Accepted \/ Rejected
       /\ (new_component.specifications = NoSpecifications /\ ReadsCandidate) =>
             (Rejected /\ verdict.message \in FaultMessages)

\* A RAM candidate whose speed is not a number, checked against a sound
\* Motherboard: the comparison's fault is reported as a CompatibilityError.
C11_Witness ==
    /\ new_component.category = "RAM"
    /\ Get(new_component.specifications, "speed", 0) = NotANumber
    /\ Len(selected_components) = 1
    /\ selected_components[1] = Component("Motherboard", SoundMotherboard)
    /\ verdict = CompatibilityError("Error checking compatibility: " \o TypeError)

SelectedStorageCount(type) ==
    Cardinality({i \in 1..Len(selected_components) :
                    /\ selected_components[i].category = "Storage"
                    /\ "type" \in DOMAIN selected_components[i].specifications
                    /\ selected_components[i].specifications["type"] = type})

StorageType(storage) == Get(storage.specifications, "type", "")

CoolerSocketOk(cooler, cpu) == SocketOf(cooler) = SocketOf(cpu)

CoolerHeightOk(cooler, case) ==
    Get(cooler.specifications, "height", 0)
      <= Get(case.specifications, "max_cooler_height", 0)

\* C13: a Cooling candidate is accepted iff (no CPU is selected or its socket
\* equals the CPU's) and (no Case is selected or its height is at most the
\* Case's max_cooler_height); a height equal to the maximum is accepted.
C13_CoolingRule ==
    new_component.category = "Cooling" =>
       /\ Accepted <=>
            /\ \A i \in 1..Len(selected_components) :
                  IsFirstOf(i, "CPU") => CoolerSocketOk(new_component, selected_components[i])
            /\ \A i \in 1..Len(selected_components) :
                  IsFirstOf(i, "Case") => CoolerHeightOk(new_component, selected_components[i])
       /\ ~Accepted => Rejected

\* A cooler accepted with a CPU and a Case selected, its height exactly the
\* Case's maximum.
C13_Witness ==
    /\ new_component.category = "Cooling"
    /\ Accepted
    /\ \E i, j \in 1..Len(selected_components) :
          /\ IsFirstOf(i, "CPU")
          /\ IsFirstOf(j, "Case")
          /\ Get(new_component.specifications, "height", 0) = 3
          /\ Get(selected_components[j].specifications, "max_cooler_height", 0) = 3

\* C14: with a Motherboard selected, a Case candidate is accepted iff the
\* Motherboard's form_factor is among the candidate's form_factors, whatever
\* PSU is selected; with no Motherboard selected every Case candidate is
\* accepted.
C14_CaseRule ==
    new_component.category = "Case" =>
       /\ \A i \in 1..Len(selected_components) :
             IsFirstOf(i, "Motherboard") =>
                /\ Accepted <=>
                     Get(selected_components[i].specifications, "form_factor", None)
                       \in Get(new_component.specifications, "form_factors", {})
                /\ ~Accepted => Rejected
       /\ (\A i \in 1..Len(selected_components) :
              selected_components[i].category # "Motherboard") => Accepted

\* A Case accepted for the Motherboard's form factor although the selected
\* PSU's form factor is not among the Case's psu_form_factors.
C14_Witness ==
    /\ new_component.category = "Case"
    /\ Accepted
    /\ \E i, j \in 1..Len(selected_components) :
          /\ IsFirstOf(i, "Motherboard")
          /\ IsFirstOf(j, "PSU")
          /\ "psu_form_factors" \in DOMAIN new_component.specifications
          /\ Get(selected_components[j].specifications, "form_factor", "")
               \notin new_component.specifications["psu_form_factors"]

(***************************************************************************)
(* Properties of validate_build, checked under SpecValidate.               *)
(***************************************************************************)
Validated == outcome # NoOutcome

\* Every entry of the request names an existing component.
Resolvable == \A i \in 1..Len(components_data) : components_data[i].component_id \in ComponentIds

\* The categories of the request's components, read from the catalog.
RequestCategories ==
    {Catalog[components_data[i].component_id].category : i \in 1..Len(components_data)}

MissingRequiredError ==
    /\ outcome.type = "ValueError"
    /\ outcome.message = "Missing required components"

\* C5: validate_build on a non-empty, fully resolvable parts list that does
\* not cover the required categories fails with the missing-required error
\* naming exactly the required categories absent from the list; a list
\* covering all five never produces this error.
C5_MissingRequired ==
    (Validated /\ components_data # <<>> /\ Resolvable) =>
       /\ ~(REQUIRED_COMPONENTS \subseteq RequestCategories) =>
             /\ MissingRequiredError
             /\ outcome.missing = REQUIRED_COMPONENTS \ RequestCategories
       /\ REQUIRED_COMPONENTS \subseteq RequestCategories => ~MissingRequiredError

\* A list of three required categories and one optional one, reported as
\* missing exactly the two others.
C5_Witness ==
    /\ Validated
    /\ Resolvable
    /\ RequestCategories = {"CPU", "Motherboard", "RAM", "GPU"}
    /\ MissingRequiredError
    /\ outcome.missing = {"PSU", "Case"}

\* The request's components, and the list with position i removed.
RequestComponent(i) == ComponentRow(components_data[i].component_id)

RequestOthers(i) ==
    [k \in 1..(Len(components_data) - 1) |->
        IF k < i THEN RequestComponent(k) ELSE RequestComponent(k + 1)]

RequestBefore(i) == [k \in 1..(i - 1) |-> RequestComponent(k)]

FailsAt(i) == check_compatibility(RequestOthers(i), RequestComponent(i)) # Compatible

\* C6: for a resolved parts list covering the required categories,
\* validate_build accepts iff every position's component is compatible with
\* the list of all the other positions; when it rejects, the error is the
\* one check_compatibility raises for the lowest failing position.
C6_WholeSet ==
    (Validated /\ Resolvable /\ REQUIRED_COMPONENTS \subseteq RequestCategories) =>
       /\ outcome.type = "ok" <=> \A i \in 1..Len(components_data) : ~FailsAt(i)
       /\ outcome.type = "ok" =>
             outcome.components = [i \in 1..Len(components_data) |-> RequestComponent(i)]
       /\ \A i \in 1..Len(components_data) :
             (FailsAt(i) /\ \A j \in 1..(i-1) : ~FailsAt(j)) =>
                LET error == check_compatibility(RequestOthers(i), RequestComponent(i))
                IN  /\ outcome.type = error.type
                    /\ outcome.message = error.message

\* A list rejected at a position whose component is compatible with all the
\* components before it: the violation comes from a later entry.
C6_Witness ==
    /\ Validated
    /\ Resolvable
    /\ REQUIRED_COMPONENTS \subseteq RequestCategories
    /\ outcome.type = "CompatibilityError"
    /\ \E i \in 1..Len(components_data) :
          /\ FailsAt(i)
          /\ \A j \in 1..(i-1) : ~FailsAt(j)
          /\ check_compatibility(RequestBefore(i), RequestComponent(i)) = Compatible

\* Some position of the request is incompatible with the request's other
\* resolvable components.
KnownPositions == {i \in 1..Len(components_data) : components_data[i].component_id \in ComponentIds}

IncompatiblePairInRequest ==
    \E i, j \in KnownPositions :
        /\ i # j
        /\ check_compatibility(<<RequestComponent(j)>>, RequestComponent(i)) # Compatible

\* C15: validate_build reports, in this order, an empty list (before any
\* lookup), an unknown component id (whatever else is wrong with the list),
\* a missing required category (whatever incompatibility the list has), and
\* only then a compatibility violation; the four errors differ.
C15_CheckOrder ==
    Validated =>
       /\ components_data = <<>> =>
             /\ outcome.type = "ValueError"
             /\ outcome.message = "No components provided"
             /\ \A id \in ComponentIds : cache[id] = CacheMiss
       /\ (components_data # <<>> /\ ~Resolvable) => outcome.type = "DoesNotExist"
       /\ (components_data # <<>> /\ Resolvable
             /\ ~(REQUIRED_COMPONENTS \subseteq RequestCategories)) => MissingRequiredError
       /\ outcome.type = "CompatibilityError" =>
             /\ components_data # <<>>
             /\ Resolvable
             /\ REQUIRED_COMPONENTS \subseteq RequestCategories
       /\ MissingRequiredError => (components_data # <<>> /\ Resolvable)

\* A list with an unknown id that also lacks required categories and holds
\* an incompatible pair: the unknown id is what is reported.
C15_Witness ==
    /\ Validated
    /\ ~Resolvable
    /\ IncompatiblePairInRequest
    /\ {Catalog[components_data[i].component_id].category : i \in KnownPositions}
         = {"CPU", "Motherboard"}
    /\ outcome.type = "DoesNotExist"

(***************************************************************************)
(* The build assembler (services.py 215-297) and the saves of a build      *)
(* (models.py 120-134, views.py 168-188).                                  *)
(***************************************************************************)
MaxPriceChanges == 1

\* The parts lists submitted to create_build and update_build: an empty
\* list, two complete builds, an incompatible one and one naming the Case
\* twice.
RequestIdLists ==
    { <<>>,
      <<1, 2, 3, 4, 5>>,
      <<1, 2, 3, 4, 5, 7>>,
      <<6, 2, 3, 4, 5>>,
      <<1, 2, 3, 4, 5, 5>> }

\* An explicit quantity is another one than the default.
Quantities == {2}

\* The list with no 'quantity' key, except on line k (if k > 0).
Request(ids, k, quantity) ==
    [i \in 1..Len(ids) |->
        IF i = k THEN ItemWithQuantity(ids[i], quantity) ELSE Item(ids[i])]

\* The line that may carry a quantity is the first one.
BuildRequests ==
    {Request(ids, 0, 1) : ids \in RequestIdLists}
    \cup {Request(ids, 1, q) : ids \in RequestIdLists \ {<<>>}, q \in Quantities}

\* The components whose catalog price is changed: one of every build and
\* one of some builds.
RepricedIds == {1, 7}

\* calculate_total_price (services.py 215-218)
RECURSIVE calculate_total_price(_)
calculate_total_price(components) ==
    IF components = <<>> THEN 0
    ELSE Head(components).price + calculate_total_price(Tail(components))

\* PCBuild.calculate_total_price (models.py 120-124): the rows' quantities
\* times the components' prices as the catalog has them now
RECURSIVE PCBuild_calculate_total_price(_)
PCBuild_calculate_total_price(rows) ==
    IF rows = <<>> THEN 0
    ELSE price[Head(rows).component_id] * Head(rows).quantity
         + PCBuild_calculate_total_price(Tail(rows))

\* next(c for c in components if c.id == item['component_id'])
ComponentWithId(components, component_id) ==
    components[CHOOSE i \in 1..Len(components) :
                  /\ components[i].id = component_id
                  /\ \A j \in 1..(i-1) : components[j].id # component_id]

\* BuildComponent.objects.create(...) with the quantity ignored
BuildComponentDefaultQuantity(item, components) ==
    [component_id |-> item.component_id,
     quantity |-> 1,
     price_at_time |-> ComponentWithId(components, item.component_id).price]

\* BuildComponent.objects.create(...) with the component's price read from
\* the catalog again when the row is written
BuildComponentCurrentPrice(item, components) ==
    [component_id |-> item.component_id,
     quantity |-> Get(item, "quantity", 1),
     price_at_time |-> price[item.component_id]]

\* BuildComponent.objects.create(build=build, component=component,
\*     quantity=item.get('quantity', 1), price_at_time=component.price)
BuildComponent(item, components) ==
    [component_id |-> item.component_id,
     quantity |-> Get(item, "quantity", 1),
     price_at_time |-> ComponentWithId(components, item.component_id).price]

\* The first line whose row breaks unique_together (build, component)
\* (models.py 141-142), 0 if none does.
FirstDuplicate(data) ==
    IF \E i \in 1..Len(data) : \E j \in 1..(i-1) : data[j].component_id = data[i].component_id
    THEN CHOOSE i \in 1..Len(data) :
            /\ \E j \in 1..(i-1) : data[j].component_id = data[i].component_id
            /\ \A k \in 1..(i-1) :
                  \A j \in 1..(k-1) : data[j].component_id # data[k].component_id
    ELSE 0

\* The rows the loop of services.py 241-248 / 268-275 has created when it
\* ends or raises IntegrityError.
RowsWritten(data, components) ==
    [i \in 1..(IF FirstDuplicate(data) = 0 THEN Len(data) ELSE FirstDuplicate(data) - 1) |->
        BuildComponent(data[i], components)]

RowIds(rows) == {rows[i].component_id : i \in 1..Len(rows)}

\* What the call raises once validation has passed.
WriteError(data) == IF FirstDuplicate(data) # 0 THEN "IntegrityError" ELSE "None"

\* PCBuild.save (models.py 126-128) of a saved build
save(b) == [b EXCEPT !.total_price = PCBuild_calculate_total_price(b.rows)]

\* create_build (services.py 220-250)
CreateBuild ==
    \E data \in BuildRequests, is_public \in BOOLEAN :
        LET validated == outcome'
            total_price == calculate_total_price(validated.components)
        IN  /\ ~build.exists
            /\ components_data' = data
            /\ outcome' = validate_build(data)
            /\ cache' = CacheAfter(data)
            /\ IF validated.type # "ok"
               THEN /\ build' = build
                    /\ result' = [NoResult EXCEPT !.op = "create_build",
                                                  !.error = validated.type]
               ELSE IF unsaved_relation_raises
               THEN \* PCBuild.objects.create -> save -> buildcomponent_set
                    /\ build' = build
                    /\ result' = [NoResult EXCEPT !.op = "create_build",
                                                  !.error = "ValueError",
                                                  !.total_price = total_price]
               ELSE /\ build' = [exists |-> TRUE,
                                 is_public |-> is_public,
                                 share_token |-> None,
                                 total_price |-> PCBuild_calculate_total_price(<<>>),
                                 rows |-> RowsWritten(data, validated.components)]
                    /\ result' = [NoResult EXCEPT !.op = "create_build",
                                                  !.error = WriteError(data),
                                                  !.total_price = total_price]
            /\ UNCHANGED <<price, price_changes, unsaved_relation_raises, engineVars,
                           processVars, inventoryVars>>

\* is_public: bool = None
IsPublicArguments == {"None", "True", "False"}

\* update_build with the fields assigned and saved before the parts list is
\* validated
update_build_save_first(data, is_public) ==
    LET validated == outcome'
        total_price == calculate_total_price(validated.components)
        saved == save([build EXCEPT
                         !.is_public = IF is_public = "None" THEN @
                                       ELSE is_public = "True",
                         !.total_price = total_price])
    IN  /\ build.exists
        /\ components_data' = data
        /\ outcome' = validate_build(data)
        /\ cache' = CacheAfter(data)
        /\ IF validated.type # "ok"
           THEN /\ build' = saved
                /\ result' = [NoResult EXCEPT !.op = "update_build",
                                              !.error = validated.type,
                                              !.previous_ids = RowIds(build.rows)]
           ELSE /\ build' = [saved EXCEPT
                                !.rows = RowsWritten(data, validated.components)]
                /\ result' = [NoResult EXCEPT !.op = "update_build",
                                              !.error = WriteError(data),
                                              !.total_price = total_price,
                                              !.previous_ids = RowIds(build.rows)]
        /\ UNCHANGED <<price, price_changes, unsaved_relation_raises, engineVars,
                       processVars, inventoryVars>>

\* update_build (services.py 252-277)
update_build(data, is_public) ==
    LET validated == outcome'
        total_price == calculate_total_price(validated.components)
        saved == save([build EXCEPT
                         !.is_public = IF is_public = "None" THEN @
                                       ELSE is_public = "True",
                         !.total_price = total_price])
    IN  /\ build.exists
        /\ components_data' = data
        /\ outcome' = validate_build(data)
        /\ cache' = CacheAfter(data)
        /\ IF validated.type # "ok"
           THEN /\ build' = build
                /\ result' = [NoResult EXCEPT !.op = "update_build",
                                              !.error = validated.type,
                                              !.previous_ids = RowIds(build.rows)]
           ELSE /\ build' = [saved EXCEPT
                                !.rows = RowsWritten(data, validated.components)]
                /\ result' = [NoResult EXCEPT !.op = "update_build",
                                              !.error = WriteError(data),
                                              !.total_price = total_price,
                                              !.previous_ids = RowIds(build.rows)]
        /\ UNCHANGED <<price, price_changes, unsaved_relation_raises, engineVars,
                       processVars, inventoryVars>>

\* A request to update the build (views.py 123-131, ModelViewSet.update)
UpdateBuild ==
    \E data \in BuildRequests, is_public \in IsPublicArguments :
        update_build(data, is_public)

\* The request is over: nothing of it is kept.
RequestDone(op) ==
    /\ components_data' = <<>>
    /\ outcome' = NoOutcome
    /\ result' = [NoResult EXCEPT !.op = op]

\* PCBuildViewSet.share (views.py 168-180)
Share ==
    /\ build.exists
    /\ build' = save([save([build EXCEPT !.is_public = TRUE])
                         EXCEPT !.share_token = "uuid"])
    /\ RequestDone("share")
    /\ UNCHANGED <<inventoryVars, catalogVars, unsaved_relation_raises, engineVars, processVars>>

\* PCBuildViewSet.unshare (views.py 182-188)
Unshare ==
    /\ build.exists
    /\ build' = save([build EXCEPT !.is_public = FALSE, !.share_token = None])
    /\ RequestDone("unshare")
    /\ UNCHANGED <<inventoryVars, catalogVars, unsaved_relation_raises, engineVars, processVars>>

\* PCBuild.generate_share_token (models.py 130-134)
GenerateShareToken ==
    /\ build.exists
    /\ build' = IF build.share_token = None
                THEN save([build EXCEPT !.share_token = "uuid"])
                ELSE build
    /\ RequestDone("generate_share_token")
    /\ UNCHANGED <<inventoryVars, catalogVars, unsaved_relation_raises, engineVars, processVars>>

\* delete_build (services.py 294-297): the rows go with the build
DeleteBuild ==
    /\ build.exists
    /\ build' = NoBuild
    /\ RequestDone("delete_build")
    /\ UNCHANGED <<inventoryVars, catalogVars, unsaved_relation_raises, engineVars, processVars>>

\* A catalog price change (ComponentViewSet update, views.py 60-68); the
\* cached snapshot is left as it is.
SetPrice ==
    \E id \in RepricedIds, new_price \in Prices :
        /\ price_changes < MaxPriceChanges
        /\ new_price # price[id]
        /\ price' = [price EXCEPT ![id] = new_price]
        /\ price_changes' = price_changes + 1
        /\ RequestDone("set_price")
        /\ UNCHANGED <<inventoryVars, cache, build, unsaved_relation_raises, engineVars, processVars>>

SaveWithoutParts == Share \/ Unshare \/ GenerateShareToken

Next ==
    \/ CreateBuild
    \/ UpdateBuild
    \/ Share
    \/ Unshare
    \/ GenerateShareToken
    \/ DeleteBuild
    \/ SetPrice

InitBuild ==
    /\ build = NoBuild
    /\ result = NoResult
    /\ unsaved_relation_raises \in BOOLEAN
    /\ InitProcess
    /\ InitNoInventory

Init == InitIdleEngine /\ InitRequest /\ InitCatalog /\ InitBuild

Spec == Init /\ [][Next]_vars

(***************************************************************************)
(* Properties of the build assembler.                                      *)
(***************************************************************************)
Assembled ==
    /\ result.op \in {"create_build", "update_build"}
    /\ outcome.type = "ok"

\* The sum over the submitted lines of the validated component's price
\* times the line's quantity (1 when the line has none).
RECURSIVE PriceTimesQuantity(_, _)
PriceTimesQuantity(components, data) ==
    IF components = <<>> THEN 0
    ELSE Head(components).price * Get(Head(data), "quantity", 1)
         + PriceTimesQuantity(Tail(components), Tail(data))

\* C7: the total calculate_total_price gives for a validated parts list is
\* the sum over its lines of price times quantity.
C7_PriceTimesQuantity ==
    Assembled =>
        result.total_price = PriceTimesQuantity(outcome.components, components_data)

\* The sum over a build's rows of price_at_time times quantity.
RECURSIVE frozen_total_price(_)
frozen_total_price(rows) ==
    IF rows = <<>> THEN 0
    ELSE Head(rows).price_at_time * Head(rows).quantity
         + frozen_total_price(Tail(rows))

\* C8: in every state a stored build's total_price is the sum over its rows
\* of price_at_time times quantity.
C8_TotalPriceInvariant ==
    build.exists => build.total_price = frozen_total_price(build.rows)

PricesAtTime(rows) == [i \in 1..Len(rows) |-> rows[i].price_at_time]

\* C9: once a catalog price has changed, share, unshare and
\* generate_share_token leave an assembled build's total_price and its
\* rows' price_at_time as they were.
C9_FrozenPrice ==
    [][(build.exists /\ price_changes > 0 /\ SaveWithoutParts) =>
          /\ build'.total_price = build.total_price
          /\ PricesAtTime(build'.rows) = PricesAtTime(build.rows)]_vars

Updated ==
    /\ result.op = "update_build"
    /\ result.error = "None"

\* The submitted lines as (component, quantity) pairs, 1 being the default.
Lines(data) ==
    [i \in 1..Len(data) |->
        [component_id |-> data[i].component_id,
         quantity |-> Get(data[i], "quantity", 1)]]

Associations(rows) ==
    [i \in 1..Len(rows) |->
        [component_id |-> rows[i].component_id, quantity |-> rows[i].quantity]]

\* C10: after a successful update_build the build's rows are exactly the
\* lines of the new parts list, with their quantities (1 by default), and no
\* component of the previous rows remains unless the new list names it.
C10_UpdateReplaces ==
    Updated =>
        /\ Associations(build.rows) = Lines(components_data)
        /\ \A id \in result.previous_ids \ RowIds(build.rows) :
              \A i \in 1..Len(components_data) : components_data[i].component_id # id

\* A successful update that dropped the GPU of the previous rows and named
\* a quantity of 2.
C10_Witness ==
    /\ Updated
    /\ 7 \in result.previous_ids
    /\ 7 \notin RowIds(build.rows)
    /\ \E i \in 1..Len(build.rows) : build.rows[i].quantity = 2

(***************************************************************************)
(* create_build and update_build statement by statement (services.py       *)
(* 220-277): every ORM call is committed on its own (no transaction is     *)
(* opened), so another request may read the build or change a catalog      *)
(* price between two of them.                                              *)
(***************************************************************************)
ConcurrentRequests ==
    {Request(<<1, 2, 3, 4, 5>>, 0, 1),
     Request(<<1, 2, 3, 4, 5, 7>>, 1, 2),
     Request(<<1, 2, 3, 4, 5, 5>>, 0, 1),
     Request(<<1, UnknownId>>, 0, 1),
     <<>>}

\* The call raises: nothing of it stays in progress.
Raise(op, error) ==
    /\ pending' = NoPending
    /\ result' = [NoResult EXCEPT !.op = op, !.error = error]

\* The call reaches validate_build (services.py 193-194, 197).
Begin(op, data, is_public) ==
    IF data = <<>>
    THEN Raise(op, "ValueError")
    ELSE /\ pending' = [NoPending EXCEPT !.pc = "lookup", !.op = op, !.data = data,
                                         !.is_public = is_public,
                                         !.previous_rows = build.rows,
                                         !.previous_total_price = build.total_price,
                                         !.price_changes = price_changes]
         /\ result' = NoResult

\* create_build is called (services.py 221-226)
\* with is_public left at its default
BeginCreate ==
    \E data \in ConcurrentRequests :
        /\ pending.pc = "idle"
        /\ ~build.exists
        /\ Begin("create_build", data, "True")
        /\ UNCHANGED <<inventoryVars, build, unsaved_relation_raises, catalogVars, requestVars,
                       engineVars, repeated, observed>>

\* update_build is called (services.py 253-256)
\* with is_public left at its default; what a reader saw during an
\* earlier update is forgotten
BeginUpdate ==
    \E data \in ConcurrentRequests :
        /\ pending.pc = "idle"
        /\ build.exists
        /\ Begin("update_build", data, "None")
        /\ observed' = NoObservation
        /\ UNCHANGED <<inventoryVars, build, unsaved_relation_raises, catalogVars, requestVars,
                       engineVars, repeated>>

\* One turn of the lookup loop (services.py 198-200); after the last one
\* the checks of services.py 203-211 and the total (services.py 229, 257).
LookupComponent ==
    LET i == Len(pending.components) + 1
        id == pending.data[i].component_id
        components == Append(pending.components, get_component(id))
    IN  /\ pending.pc = "lookup"
        /\ IF DoesNotExist(id)
           THEN Raise(pending.op, "DoesNotExist") /\ cache' = cache
           ELSE /\ cache' = [cache EXCEPT ![id] = IF @ = CacheMiss THEN price[id] ELSE @]
                /\ IF i < Len(pending.data)
                   THEN /\ pending' = [pending EXCEPT !.components = components]
                        /\ result' = result
                   ELSE IF missing_categories(components) # {}
                   THEN Raise(pending.op, "ValueError")
                   ELSE IF FirstIncompatible(components, 1) # 0
                   THEN Raise(pending.op, "CompatibilityError")
                   ELSE /\ pending' =
                             [pending EXCEPT
                                !.components = components,
                                !.total_price = calculate_total_price(components),
                                !.pc = IF pending.op = "create_build"
                                       THEN "create" ELSE "save"]
                        /\ result' = result
        /\ UNCHANGED <<inventoryVars, build, unsaved_relation_raises, price, price_changes,
                       requestVars, engineVars, repeated, observed>>

\* PCBuild.objects.create(...) (services.py 232-238)
CreateRow ==
    /\ pending.pc = "create"
    /\ IF unsaved_relation_raises
       THEN Raise(pending.op, "ValueError") /\ build' = build
       ELSE /\ build' = [exists |-> TRUE,
                         is_public |-> pending.is_public = "True",
                         share_token |-> None,
                         total_price |-> PCBuild_calculate_total_price(<<>>),
                         rows |-> <<>>]
            /\ pending' = [pending EXCEPT !.pc = "write"]
            /\ result' = result
    /\ UNCHANGED <<inventoryVars, unsaved_relation_raises, catalogVars, requestVars, engineVars,
                   repeated, observed>>

\* build.total_price = total_price; build.save() (services.py 259-264)
SaveBuild ==
    /\ pending.pc = "save"
    /\ build' = save([build EXCEPT
                        !.is_public = IF pending.is_public = "None" THEN @
                                      ELSE pending.is_public = "True",
                        !.total_price = pending.total_price])
    /\ pending' = [pending EXCEPT !.pc = "clear"]
    /\ UNCHANGED <<inventoryVars, result, unsaved_relation_raises, catalogVars, requestVars,
                   engineVars, repeated, observed>>

\* build.components.clear() (services.py 267)
ClearComponents ==
    /\ pending.pc = "clear"
    /\ build' = [build EXCEPT !.rows = <<>>]
    /\ pending' = [pending EXCEPT !.pc = "write"]
    /\ UNCHANGED <<inventoryVars, result, unsaved_relation_raises, catalogVars, requestVars,
                   engineVars, repeated, observed>>

\* One turn of the loop that creates the rows (services.py 241-248,
\* 268-275).
WriteRow ==
    LET item == pending.data[Len(build.rows) + 1]
    IN  /\ pending.pc = "write"
        /\ Len(build.rows) < Len(pending.data)
        /\ IF item.component_id \in RowIds(build.rows)
           THEN Raise(pending.op, "IntegrityError") /\ build' = build
           ELSE /\ build' = [build EXCEPT
                                !.rows = Append(@, BuildComponent(item, pending.components))]
                /\ pending' = pending
                /\ result' = result
        /\ UNCHANGED <<inventoryVars, unsaved_relation_raises, catalogVars, requestVars, engineVars,
                       repeated, observed>>

\* return build (services.py 250, 277)
ReturnBuild ==
    /\ pending.pc = "write"
    /\ Len(build.rows) = Len(pending.data)
    /\ pending' = NoPending
    /\ result' = [NoResult EXCEPT !.op = pending.op,
                                  !.total_price = pending.total_price,
                                  !.previous_ids = RowIds(pending.previous_rows)]
    /\ UNCHANGED <<inventoryVars, build, unsaved_relation_raises, catalogVars, requestVars,
                   engineVars, repeated, observed>>

\* Another request reads the build and its rows while update_build runs
\* (PCBuildViewSet retrieve, views.py 123-131).
ReadBuild ==
    /\ build.exists
    /\ pending.op = "update_build"
    /\ observed' = [seen |-> TRUE, rows |-> build.rows,
                    total_price |-> build.total_price, during |-> pending]
    /\ UNCHANGED <<inventoryVars, build, result, unsaved_relation_raises, catalogVars, requestVars,
                   engineVars, repeated, pending>>

\* Another request changes a catalog price (ComponentViewSet update,
\* views.py 60-68).
UpdatePrice ==
    \E id \in RepricedIds, new_price \in Prices :
        /\ price_changes < MaxPriceChanges
        /\ new_price # price[id]
        /\ price' = [price EXCEPT ![id] = new_price]
        /\ price_changes' = price_changes + 1
        /\ UNCHANGED <<inventoryVars, cache, buildVars, requestVars, engineVars, processVars>>

NextConcurrent ==
    \/ BeginCreate
    \/ BeginUpdate
    \/ LookupComponent
    \/ CreateRow
    \/ SaveBuild
    \/ ClearComponents
    \/ WriteRow
    \/ ReturnBuild
    \/ ReadBuild
    \/ UpdatePrice

InitConcurrent == InitIdleEngine /\ InitRequest /\ InitCatalog /\ InitNoBuild

SpecConcurrent == InitConcurrent /\ [][NextConcurrent]_vars

(***************************************************************************)
(* validate_build called again and again (views.py 160-166), while the     *)
(* catalog's prices change and the cache's entries expire.                 *)
(***************************************************************************)
RevalidateIdLists ==
    { <<>>,
      <<1, 2, 3, 4, 5>>,
      <<1, 2, 3, 4>>,
      <<6, 2, 3, 4, 5>>,
      <<1, 2, UnknownId>> }

ValidateList ==
    \E ids \in RevalidateIdLists :
        /\ components_data' = Request(ids, 0, 1)
        /\ outcome' = validate_build(Request(ids, 0, 1))
        /\ cache' = CacheAfter(Request(ids, 0, 1))
        /\ repeated' = (outcome # NoOutcome /\ components_data = Request(ids, 0, 1))
        /\ UNCHANGED <<inventoryVars, price, price_changes, engineVars, buildVars, pending, observed>>

\* The cached snapshots reach their timeout (services.py 39).
ExpireCache ==
    /\ \E id \in ComponentIds : cache[id] # CacheMiss
    /\ cache' = [id \in ComponentIds |-> CacheMiss]
    /\ UNCHANGED <<inventoryVars, price, price_changes, engineVars, requestVars, buildVars, processVars>>

NextRevalidate == ValidateList \/ SetPrice \/ ExpireCache

SpecRevalidate == InitValidate /\ [][NextRevalidate]_vars

(***************************************************************************)
(* Properties of repeated validation, checked under SpecRevalidate.  A     *)
(* price change clears the request (RequestDone), so a repeated call       *)
(* follows the call before it with no catalog change in between.           *)
(***************************************************************************)
\* C16 as claimed: validate_build called twice in succession on the same
\* list, with no catalog change in between, yields the same outcome whether
\* the second call's lookups are served from the cache or from storage, and
\* changes no catalog or build state.
C16_Idempotent ==
    [][(ValidateList /\ repeated') =>
          /\ outcome' = outcome
          /\ UNCHANGED <<price, build>>]_vars

\* Every snapshot the previous call read or cached is still in the cache.
StillCached == \A id \in LookedUp(components_data) : cache[id] # CacheMiss

\* C16 amended: validate_build called twice in succession on the same list,
\* with no catalog change in between and the snapshots of the first call
\* still cached at the second, yields the same outcome and changes no
\* catalog, cache or build state.
C16_IdempotentWhileCached ==
    [][(ValidateList /\ repeated' /\ StillCached) =>
          /\ outcome' = outcome
          /\ UNCHANGED <<price, build, cache>>]_vars

\* A repeated call that accepted the list from cached snapshots older than
\* the catalog's current price.
C16_Witness ==
    /\ repeated
    /\ outcome.type = "ok"
    /\ \E i \in 1..Len(outcome.components) :
          outcome.components[i].price # price[outcome.components[i].id]

\* C28: when create_build fails, by a validation error or while it writes
\* the rows, no PCBuild row and no BuildComponent row of the call remains.
C28_CreateAllOrNothing ==
    (result.op = "create_build" /\ result.error # None) =>
        (~build.exists /\ build.rows = <<>>)

\* The errors with which validate_build rejects a parts list.
ValidationErrors == {"ValueError", "DoesNotExist", "CompatibilityError"}

\* C29: an update_build that fails because the list is empty, names an
\* unknown component, lacks a required category or breaks a compatibility
\* rule leaves is_public, total_price and the rows of the build as they
\* were, and a successful update_build with is_public omitted leaves
\* is_public as it was.
C29_RejectedUpdate ==
    [][\A data \in BuildRequests, is_public \in IsPublicArguments :
          update_build(data, is_public) =>
             /\ result'.error \in ValidationErrors => build' = build
             /\ (result'.error = None /\ is_public = "None") =>
                   build'.is_public = build.is_public]_vars

\* A rejected update of a build that has its rows and a share token.
C29_Witness ==
    /\ result.op = "update_build"
    /\ result.error \in ValidationErrors
    /\ build.exists
    /\ build.rows # <<>>
    /\ build.share_token # None

\* C20: whatever create_build, share, unshare, generate_share_token and
\* update_build have done, a build carries a share token only while
\* is_public is true, and unshare leaves is_public false and no token.
C20_ShareToken ==
    /\ (build.exists /\ build.share_token # None) => build.is_public
    /\ (build.exists /\ result.op = "unshare") =>
          (~build.is_public /\ build.share_token = None)

\* The entries of the request whose component is of the category.
EntriesOfCategory(category) ==
    {i \in KnownPositions : Catalog[components_data[i].component_id].category = category}

\* C19: a parts list that validate_build accepts holds at most one CPU, at
\* most one Motherboard, at most one Case and at most one PSU.
C19_SingleOccurrence ==
    (Validated /\ outcome.type = "ok") =>
        \A category \in {"CPU", "Motherboard", "Case", "PSU"} :
            Cardinality(EntriesOfCategory(category)) <= 1

(***************************************************************************)
(* Properties of the assembler's steps, checked under SpecConcurrent.      *)
(***************************************************************************)
\* C17: a reader concurrent with update_build sees either the complete rows
\* from before the update or the complete rows of the new parts list, never
\* an empty or partly rebuilt set, and while it sees the old rows it sees
\* the old total_price.
C17_AtomicReplace ==
    observed.seen =>
       /\ \/ observed.rows = observed.during.previous_rows
          \/ Associations(observed.rows) = Lines(observed.during.data)
       /\ observed.rows = observed.during.previous_rows =>
             observed.total_price = observed.during.previous_total_price

\* The validated components that have the row's component id.
SnapshotsOf(row) ==
    {i \in 1..Len(pending.components) : pending.components[i].id = row.component_id}

RECURSIVE SumOfSnapshots(_)
SumOfSnapshots(n) ==
    IF n = 0 THEN 0 ELSE pending.components[n].price + SumOfSnapshots(n - 1)

\* C18: while create_build or update_build writes its rows, every row
\* written has as price_at_time the price of the validated component that
\* entered the call's total, whatever the catalog's price has become since
\* the component was read.
C18_PriceSnapshot ==
    pending.pc = "write" =>
       /\ pending.total_price = SumOfSnapshots(Len(pending.components))
       /\ \A k \in 1..Len(build.rows) :
             /\ SnapshotsOf(build.rows[k]) # {}
             /\ \A i \in SnapshotsOf(build.rows[k]) :
                   build.rows[k].price_at_time = pending.components[i].price

\* A row written after the catalog price of its component changed during the
\* call: the row holds the price that was read, not the catalog's.
C18_Witness ==
    /\ pending.pc = "write"
    /\ price_changes > pending.price_changes
    /\ \E k \in 1..Len(build.rows) :
          /\ build.rows[k].price_at_time # price[build.rows[k].component_id]
          /\ cache[build.rows[k].component_id] = build.rows[k].price_at_time

(***************************************************************************)
(* The incremental path: a client selects components one at a time, asks   *)
(* check_compatibility for each against the ones selected before it        *)
(* (views.py 75-84) and may validate the list it has (views.py 160-166).   *)
(***************************************************************************)
\* The components the client chooses from: the fixtures of the required
\* categories and the DDR4 kit.
IncrementalIds == {1, 2, 3, 4, 5, 8}

\* The ids of a parts list, in its order.
IdsOf(data) == [i \in 1..Len(data) |-> data[i].component_id]

\* The parts list that names the ids, in their order.
ComponentItems(component_ids) ==
    [i \in 1..Len(component_ids) |-> Item(component_ids[i])]

\* [Component.objects.get(id=cid) for cid in component_ids] (views.py 79)
ComponentRows(component_ids) ==
    [i \in 1..Len(component_ids) |-> ComponentRow(component_ids[i])]

\* sorted(component_ids) (services.py 29)
RECURSIVE sorted(_)
sorted(ids) ==
    IF ids = <<>> THEN <<>>
    ELSE LET least == CHOOSE i \in 1..Len(ids) :
                         /\ \A j \in 1..Len(ids) : ids[i] <= ids[j]
                         /\ \A j \in 1..(i - 1) : ids[j] # ids[i]
         IN  <<ids[least]>>
             \o sorted(SubSeq(ids, 1, least - 1) \o SubSeq(ids, least + 1, Len(ids)))

\* get_compatible_components_cache_key (services.py 27-29)
get_compatible_components_cache_key(component_ids) == sorted(component_ids)

\* Component.objects.exclude(id__in=component_ids) (services.py 50)
all_components(component_ids) ==
    ComponentIds \ {component_ids[i] : i \in 1..Len(component_ids)}

\* The components of all_components for which check_compatibility raises
\* (services.py 52-55); a raise leaves the list comprehension and the call.
RaisingComponents(component_ids) ==
    LET selected == [i \in 1..Len(component_ids) |-> get_component(component_ids[i])]
    IN  {id \in all_components(component_ids) :
            check_compatibility(selected, ComponentRow(id)) # Compatible}

\* The client asks whether one more component fits its selection and adds
\* it when the answer is compatible (views.py 75-84).
AddComponent ==
    \E id \in IncrementalIds :
        LET checked == check_compatibility(ComponentRows(IdsOf(components_data)),
                                           ComponentRow(id))
        IN  /\ Len(components_data) < MaxParts
            /\ \A i \in 1..Len(components_data) : components_data[i].component_id # id
            /\ verdict' = checked
            /\ components_data' = IF checked = Compatible
                                  THEN Append(components_data, Item(id))
                                  ELSE components_data
            /\ outcome' = NoOutcome
            /\ UNCHANGED <<family, selected_components, new_component, catalogVars,
                           buildVars, processVars, inventoryVars>>

\* The client validates the list it has selected (views.py 160-166).
ValidateSelected ==
    /\ outcome = NoOutcome
    /\ outcome' = validate_build(components_data)
    /\ cache' = CacheAfter(components_data)
    /\ UNCHANGED <<components_data, price, price_changes, engineVars, buildVars,
                   processVars, inventoryVars>>

NextIncremental ==
    \/ AddComponent
    \/ ValidateSelected

InitIncremental == InitIdleEngine /\ InitRequest /\ InitCatalog /\ InitNoBuild

SpecIncremental == InitIncremental /\ [][NextIncremental]_vars

(***************************************************************************)
(* get_compatible_components (services.py 43-59), asked for one selection  *)
(* after another.                                                          *)
(***************************************************************************)
CompatibleRequests ==
    { <<>>, <<1>>, <<2>>, <<3>>, <<6>>, <<1, 3>>, <<3, 1>>, <<1, 2>>,
      <<UnknownId>>, <<1, UnknownId>> }

\* The queryset of services.py 50 has no ordering, so the component whose
\* check raises first is any of those that raise.
GetCompatibleComponents ==
    \E component_ids \in CompatibleRequests :
        LET data == ComponentItems(component_ids)
            cache_key == get_compatible_components_cache_key(component_ids)
            hits == {c \in compatible_cache : c.cache_key = cache_key}
        IN  /\ components_data' = data
            /\ IF hits # {}
               THEN /\ compatible' = [type |-> "cached", message |-> "",
                                      components |-> (CHOOSE c \in hits : TRUE).components]
                    /\ UNCHANGED <<cache, compatible_cache>>
               ELSE IF FirstUnknown(data) # 0
               THEN /\ compatible' = [NotAsked EXCEPT !.type = "DoesNotExist"]
                    /\ cache' = CacheAfter(data)
                    /\ UNCHANGED compatible_cache
               ELSE /\ cache' = CacheAfter(data)
                    /\ IF RaisingComponents(component_ids) # {}
                       THEN /\ \E id \in RaisingComponents(component_ids) :
                                  LET raised == check_compatibility(
                                                   [i \in 1..Len(component_ids) |->
                                                       get_component(component_ids[i])],
                                                   ComponentRow(id))
                                  IN  compatible' = [type |-> raised.type,
                                                     message |-> raised.message,
                                                     components |-> {}]
                            /\ UNCHANGED compatible_cache
                       ELSE /\ compatible' = [type |-> "ok", message |-> "",
                                              components |-> all_components(component_ids)]
                            /\ compatible_cache' =
                                  compatible_cache
                                  \cup {[cache_key |-> cache_key,
                                         components |-> all_components(component_ids)]}
            /\ UNCHANGED <<outcome, price, price_changes, engineVars, buildVars,
                           processVars, inventory>>

NextCompatible == GetCompatibleComponents

SpecCompatible == InitIncremental /\ [][NextCompatible]_vars

(***************************************************************************)
(* Properties of the incremental path, checked under SpecIncremental.      *)
(***************************************************************************)
\* Each component of the list is accepted by check_compatibility against
\* the ones before it.
AcceptedOneByOne(component_ids) ==
    \A i \in 1..Len(component_ids) :
        check_compatibility(ComponentRows(SubSeq(component_ids, 1, i - 1)),
                            ComponentRow(component_ids[i])) = Compatible

\* The category of every required component is in the list.
CoversRequired(component_ids) ==
    REQUIRED_COMPONENTS
       \subseteq {Catalog[component_ids[i]].category : i \in 1..Len(component_ids)}

\* The orders in which the five required fixtures, the RAM being the DDR4
\* kit, can be selected.
SelectionOrders ==
    {ids \in [1..5 -> {1, 2, 4, 5, 8}] : \A i, j \in 1..5 : i # j => ids[i] # ids[j]}

\* C22: there is a parts list that covers the required categories and is
\* accepted component by component, each against the ones selected before
\* it, which validate_build rejects.
C22_PathsDisagree ==
    \E component_ids \in SelectionOrders :
        /\ AcceptedOneByOne(component_ids)
        /\ CoversRequired(component_ids)
        /\ validate_build(ComponentItems(component_ids)).type = "CompatibilityError"

\* The client has selected such a list one component at a time and
\* validate_build has rejected it.
C22_Witness ==
    /\ CoversRequired(IdsOf(components_data))
    /\ AcceptedOneByOne(IdsOf(components_data))
    /\ outcome.type = "CompatibilityError"

(***************************************************************************)
(* Properties of get_compatible_components, checked under SpecCompatible.  *)
(***************************************************************************)
\* C23: on a cache miss get_compatible_components returns exactly the
\* catalog components outside the selection that check_compatibility
\* accepts against it; an incompatible component is left out and does not
\* make the call fail.
C23_CompatibleComponents ==
    compatible.type \notin {"None", "cached", "DoesNotExist"} =>
        /\ compatible.type = "ok"
        /\ compatible.components =
              {id \in all_components(IdsOf(components_data)) :
                  check_compatibility(ComponentRows(IdsOf(components_data)),
                                      ComponentRow(id)) = Compatible}

(***************************************************************************)
(* validate_build asked again for a variant of the list it was asked       *)
(* before (views.py 160-166): the same entries in another order, or the    *)
(* same lines with another quantity.                                       *)
(***************************************************************************)
VariantLists ==
    { <<1, 2, 3, 4, 5>>,
      <<1, 2, 8, 4, 5>>,
      <<6, 2, 3, 4, 5>>,
      <<1, 2, 3, 4>>,
      <<1, UnknownId, 3>>,
      <<1, 2, 3, 4, 5, 7>>,
      <<1, 2, 3, 8, 4, 5>> }

\* BuildComponent.quantity values a line may name (models.py 139)
QuantityValues == {1, 2, 3}

\* The first request of the client.
ValidateFirst ==
    \E component_ids \in VariantLists :
        /\ outcome = NoOutcome
        /\ components_data' = ComponentItems(component_ids)
        /\ outcome' = validate_build(ComponentItems(component_ids))
        /\ cache' = CacheAfter(ComponentItems(component_ids))
        /\ UNCHANGED <<price, price_changes, engineVars, buildVars, processVars,
                       inventoryVars>>

\* The list with the entries at i and i + 1 exchanged.
Exchanged(data, i) == [data EXCEPT ![i] = data[i + 1], ![i + 1] = data[i]]

\* The client sends the list again with two neighbouring entries exchanged.
ValidatePermuted ==
    \E i \in 1..(Len(components_data) - 1) :
        /\ outcome # NoOutcome
        /\ \A k \in 1..Len(components_data) : "quantity" \notin DOMAIN components_data[k]
        /\ components_data' = Exchanged(components_data, i)
        /\ outcome' = validate_build(Exchanged(components_data, i))
        /\ cache' = CacheAfter(Exchanged(components_data, i))
        /\ UNCHANGED <<price, price_changes, engineVars, buildVars, processVars,
                       inventoryVars>>

\* The client sends the list again with another quantity on one line.
ValidateRequantified ==
    \E i \in 1..Len(components_data), quantity \in QuantityValues :
        LET data == [components_data EXCEPT
                        ![i] = ItemWithQuantity(components_data[i].component_id, quantity)]
        IN  /\ outcome # NoOutcome
            /\ IdsOf(components_data) \in VariantLists
            /\ components_data' = data
            /\ outcome' = validate_build(data)
            /\ cache' = CacheAfter(data)
            /\ UNCHANGED <<price, price_changes, engineVars, buildVars, processVars,
                           inventoryVars>>

NextVariants ==
    \/ ValidateFirst
    \/ ValidatePermuted
    \/ ValidateRequantified

SpecVariants == InitIncremental /\ [][NextVariants]_vars

(***************************************************************************)
(* Properties of the variants, checked under SpecVariants.                 *)
(***************************************************************************)
\* The list names at most one CPU, one Motherboard, one Case and one PSU.
AtMostOneOfEach ==
    \A category \in {"CPU", "Motherboard", "Case", "PSU"} :
        Cardinality(EntriesOfCategory(category)) <= 1

\* C26: for a parts list with at most one CPU, Motherboard, Case and PSU,
\* validate_build accepts a permutation of the list iff it accepts the
\* list; exchanging neighbours step by step reaches every permutation.
C26_OrderIndependent ==
    [][(ValidatePermuted /\ AtMostOneOfEach) =>
          ((outcome'.type = "ok") <=> (outcome.type = "ok"))]_vars

\* The list with the DDR4 kit moved in front of the motherboard, where the
\* incremental path would accept it: rejected as in the first order.
C26_Witness ==
    /\ outcome.type = "CompatibilityError"
    /\ AtMostOneOfEach
    /\ IdsOf(components_data) \notin VariantLists
    /\ \E i, j \in 1..Len(components_data) :
          /\ i < j
          /\ components_data[i].component_id = 8
          /\ components_data[j].component_id = 2

\* C27: validate_build's outcome does not change when the quantity of a
\* line is changed to another positive value: slots and TDP are counted per
\* entry of the list.
C27_QuantityIgnored ==
    [][ValidateRequantified => outcome' = outcome]_vars

\* A list accepted with three units on the RAM line, the motherboard having
\* one RAM slot.
C27_Witness ==
    /\ outcome.type = "ok"
    /\ \E i \in 1..Len(components_data) :
          /\ components_data[i].component_id = 3
          /\ QuantityOf(components_data[i]) = 3
    /\ Get(Catalog[2].specifications, "ram_slots", 0) = 1

(***************************************************************************)
(* Inventory: the stock of a component, its alerts and its reorder         *)
(* (models.py 35-63, 147-210; views.py 236-260, 281-356).  One component   *)
(* and one Reorder for it are followed.  No code sets resolved_at, so      *)
(* every InventoryAlert row stays unresolved.                              *)
(***************************************************************************)
MaxStock == 3

MaxAlerts == 2

MaxCredits == 2

\* request.data['quantity'] and StockHistory.quantity: any integer
StockQuantities == {-1, 0, 1, 2}

\* Component.reorder_point (models.py 40)
ReorderPoints == {1}

\* Component.stock when the requests begin
InitialStocks == {0, 1, 2}

InitInventory ==
    /\ InitIdleEngine
    /\ InitRequest
    /\ InitCatalog
    /\ build = NoBuild
    /\ result = NoResult
    /\ unsaved_relation_raises = FALSE
    /\ InitProcess
    /\ inventory \in {[NoInventory EXCEPT !.stock = stock, !.reorder_point = reorder_point] :
                         stock \in InitialStocks, reorder_point \in ReorderPoints}

\* What the last inventory request was, how it ended, and the stock it found.
Response(op, status) == [op |-> op, status |-> status, stock_before |-> inventory.stock]

\* The request ends without a write.
Refused(op, status) ==
    inventory' = [inventory EXCEPT !.response = Response(op, status)]

\* component.save() with a new stock
StockSaved(op, status, stock) ==
    /\ stock \in (0 - MaxStock)..MaxStock
    /\ inventory' = [inventory EXCEPT !.stock = stock, !.response = Response(op, status)]

\* InventoryManagementView.update_stock (views.py 281-322).  After
\* component.save() the view calls StockHistory.objects.create(action=...):
\* StockHistory has no field `action`, the constructor raises TypeError and
\* no StockHistory row is written; the stock is already saved.
UpdateStock ==
    \E known \in BOOLEAN, quantity \in StockQuantities, action \in {"add", "remove", "set"} :
        /\ IF quantity = 0
           THEN Refused("update_stock", "Component ID, quantity, and action are required")
           ELSE IF ~known
           THEN Refused("update_stock", "Component not found")
           ELSE IF action = "add"
           THEN StockSaved("update_stock", "TypeError", inventory.stock + quantity)
           ELSE IF action = "remove"
           THEN IF inventory.stock < quantity
                THEN Refused("update_stock", "Insufficient stock")
                ELSE StockSaved("update_stock", "TypeError", inventory.stock - quantity)
           ELSE Refused("update_stock", "Invalid action")
        /\ UNCHANGED <<engineVars, requestVars, catalogVars, buildVars, processVars,
                       compatible, compatible_cache>>

\* StockHistory.save (models.py 202-210), for a row created through the ORM
\* or the admin
SaveStockHistory ==
    \E change_type \in {"in", "out", "adjustment"}, quantity \in StockQuantities :
        /\ StockSaved("stock_history", change_type,
                      IF change_type = "in" THEN inventory.stock + quantity
                      ELSE IF change_type = "out" THEN inventory.stock - quantity
                      ELSE quantity)
        /\ UNCHANGED <<engineVars, requestVars, catalogVars, buildVars, processVars,
                       compatible, compatible_cache>>

\* The status check_stock_level passes to create_stock_alert (models.py
\* 48-51), "none" when it creates no alert.
StockStatus(stock, reorder_point) ==
    IF stock <= 0 THEN "out_of_stock"
    ELSE IF stock <= reorder_point THEN "low_stock"
    ELSE "none"

\* Component.check_stock_level and create_stock_alert (models.py 46-63)
CheckStockLevel ==
    LET status == StockStatus(inventory.stock, inventory.reorder_point)
    IN  /\ Len(inventory.alerts) < MaxAlerts
        /\ inventory' =
              [inventory EXCEPT
                 !.alerts = IF status = "none" THEN @
                            ELSE Append(@, [status |-> status, resolved_at |-> None]),
                 !.response = Response("check_stock_level", status)]
        /\ UNCHANGED <<engineVars, requestVars, catalogVars, buildVars, processVars,
                       compatible, compatible_cache>>

\* InventoryManagementView.reorder (views.py 236-260)
PlaceReorder ==
    \E known \in BOOLEAN, quantity \in StockQuantities :
        /\ ~inventory.reorder.exists
        /\ IF quantity = 0
           THEN Refused("reorder", "Component ID and quantity are required")
           ELSE IF ~known
           THEN Refused("reorder", "Component not found")
           ELSE inventory' =
                   [inventory EXCEPT
                      !.reorder = [exists |-> TRUE, quantity |-> quantity,
                                   status |-> "pending"],
                      !.response = Response("reorder", "pending")]
        /\ UNCHANGED <<engineVars, requestVars, catalogVars, buildVars, processVars,
                       compatible, compatible_cache>>

\* Reorder.save (models.py 179-183) of the Reorder with the given status
Reorder_save(op, status) ==
    IF status = "received"
    THEN /\ inventory.credited < MaxCredits
         /\ inventory.stock + inventory.reorder.quantity \in (0 - MaxStock)..MaxStock
         /\ inventory' =
               [inventory EXCEPT
                  !.stock = @ + inventory.reorder.quantity,
                  !.credited = @ + 1,
                  !.reorder.status = status,
                  !.response = Response(op, status)]
    ELSE inventory' = [inventory EXCEPT !.reorder.status = status,
                                        !.response = Response(op, status)]

\* InventoryManagementView.update_reorder_status (views.py 335-356)
UpdateReorderStatus ==
    \E new_status \in {"pending", "ordered", "received", "cancelled"} :
        /\ IF ~inventory.reorder.exists
           THEN Refused("update_reorder_status", "Reorder not found")
           ELSE Reorder_save("update_reorder_status", new_status)
        /\ UNCHANGED <<engineVars, requestVars, catalogVars, buildVars, processVars,
                       compatible, compatible_cache>>

\* The Reorder is saved with its status as it is (the admin's change form).
SaveReorder ==
    /\ inventory.reorder.exists
    /\ Reorder_save("save_reorder", inventory.reorder.status)
    /\ UNCHANGED <<engineVars, requestVars, catalogVars, buildVars, processVars,
                   compatible, compatible_cache>>

NextInventory ==
    \/ UpdateStock
    \/ SaveStockHistory
    \/ CheckStockLevel
    \/ PlaceReorder
    \/ UpdateReorderStatus
    \/ SaveReorder

SpecInventory == InitInventory /\ [][NextInventory]_vars

(***************************************************************************)
(* Properties of the inventory, checked under SpecInventory.               *)
(***************************************************************************)
\* C21: there are never two unresolved InventoryAlert rows with the same
\* status for the component, and check_stock_level raises out_of_stock when
\* stock <= 0, low_stock when 0 < stock <= reorder_point, nothing above.
C21_AlertsNotDuplicated ==
    /\ \A i, j \in 1..Len(inventory.alerts) :
          i # j => inventory.alerts[i].status # inventory.alerts[j].status
    /\ inventory.response.op = "check_stock_level" =>
          inventory.response.status =
             (IF inventory.stock <= 0 THEN "out_of_stock"
              ELSE IF inventory.stock <= inventory.reorder_point THEN "low_stock"
              ELSE "none")

\* C25: the stock is never negative, and a 'remove' for more than the stock
\* is refused with the insufficient-stock error and leaves the stock as it
\* was.
C25_StockNotNegative ==
    /\ inventory.stock >= 0
    /\ (inventory.response.op = "update_stock"
          /\ inventory.response.status = "Insufficient stock") =>
             inventory.stock = inventory.response.stock_before

\* C30: the Reorder's quantity is added to the stock at most once, and a
\* save with status pending, ordered or cancelled adds nothing.
C30_CreditedOnce ==
    /\ inventory.credited <= 1
    /\ (inventory.response.op \in {"update_reorder_status", "save_reorder"}
          /\ inventory.response.status \in {"pending", "ordered", "cancelled"}) =>
             inventory.stock = inventory.response.stock_before
====
